---- MODULE Spec2Model ----
(***************************************************************************)
(* IgnisDB (src/ignisdb_server.py): the typed keyspace with lazy expiry,   *)
(* the single-lock command dispatcher, MULTI/EXEC transactions, the AOF    *)
(* journal, and master -> replica full sync and command propagation.       *)
(*                                                                         *)
(* Two server processes are modelled: "M" started with --role master and   *)
(* "S" started with --role slave.  Text on a socket is modelled as the     *)
(* sequence of its whitespace-separated tokens (what str.split() yields),  *)
(* the clock in ticks of half a second.                                    *)
(* The peer of connection "r1" is the connect_to_master task of "S", or a   *)
(* client of "M" that asks for replication with a REPLICAOF line.          *)
(***************************************************************************)
EXTENDS Integers, Sequences, FiniteSets, TLC

VARIABLES
    now,                    \* time.time(), in ticks
    data,                   \* StorageEngine._data of each server
    lock,                   \* StorageEngine._lock of each server: "free" or its holder
    aof_open,               \* StorageEngine._aof is not None (--persistence-mode aof)
    aof,                    \* the records written to the AOF file of each server
    slaves,                 \* ReplicationManager.slaves of the master (writers = connections)
    closing,                \* writer.is_closing() of each connection
    wire,                   \* what the server wrote to the socket of a replica link
    inflight,               \* the frame a replica link carries towards the master
    pc,                     \* where handle_client of each connection stands
    in_transaction,         \* handle_client local
    command_queue,          \* handle_client local
    cur,                    \* handle_client locals command, args of the frame in progress
    results,                \* execute_transaction local
    write_commands_in_txn,  \* execute_transaction local
    txn_pos,                \* execute_transaction: position of its current for loop
    prop_pos,               \* propagate: position of its for loop over self.slaves
    disconnected_slaves,    \* propagate local
    response,               \* the last reply written to the connection
    rpc,                    \* where connect_to_master of the replica stands
    rpos,                   \* how many chunks of the link the replica has read
    snapshot_file,          \* the JSON document save_snapshot wrote, of each server
    txn_base,               \* history: the keyspace when execute_transaction took the lock
    mark                    \* history: the lengths of the master's journal and of the link's
                            \* stream when its full sync was taken and when it joined

vars == <<now, data, lock, aof_open, aof, slaves, closing, wire, inflight, pc,
          in_transaction, command_queue, cur, results, write_commands_in_txn,
          txn_pos, prop_pos, disconnected_slaves, response, rpc, rpos, snapshot_file, txn_base, mark>>

---------------------------------------------------------------------------
(* Bounds of the model *)

MaxTime == 3
MaxListLen == 2
MaxQueue == 2
MaxLog == 2

---------------------------------------------------------------------------
(* Processes, connections, roles *)

Servers == {"M", "S"}

\* args.role of each process
role(s) == IF s = "M" THEN "master" ELSE "slave"

\* c1, c2: clients of the master; r1, r2: the connections replicas opened to
\* the master; s1: a client of the replica.
Conns == {"c1", "c2", "r1", "r2", "s1"}
Links == {"r1", "r2"}
ServerOf(c) == IF c = "s1" THEN "S" ELSE "M"

\* The task of the replica that runs connect_to_master
ReplTask == "connect_to_master"

None == <<>>

---------------------------------------------------------------------------
(* Python values *)

\* int(s) and str(n) on the tokens of the model
IntRange == -2..9
IsIntTok(tok) == \E n \in IntRange : ToString(n) = tok
int(tok) == CHOOSE n \in IntRange : ToString(n) = tok
str(n) == ToString(n)

\* str.upper()
upper(tok) ==
    CASE tok = "set" -> "SET"
      [] tok = "get" -> "GET"
      [] tok = "delete" -> "DELETE"
      [] tok = "expire" -> "EXPIRE"
      [] tok = "lpush" -> "LPUSH"
      [] tok = "hset" -> "HSET"
      [] tok = "multi" -> "MULTI"
      [] tok = "exec" -> "EXEC"
      [] tok = "replicaof" -> "REPLICAOF"
      [] tok = "nope" -> "NOPE"
      [] OTHER -> tok

\* list(reversed(values))
RECURSIVE reversed(_)
reversed(seq) == IF seq = <<>> THEN <<>> ELSE Append(reversed(Tail(seq)), Head(seq))

Min(a, b) == IF a < b THEN a ELSE b
Max(a, b) == IF a > b THEN a ELSE b

\* lst[a:b] with Python's handling of negative and out-of-range indices
PyIndex(n, i) == IF i < 0 THEN Max(n + i, 0) ELSE Min(i, n)
PySlice(lst, a, b) ==
    LET lo == PyIndex(Len(lst), a)
        hi == PyIndex(Len(lst), b)
    IN  IF lo >= hi THEN <<>> ELSE SubSeq(lst, lo + 1, hi)
PySliceFrom(lst, a) == PySlice(lst, a, Len(lst))

\* time.time() + int(seconds), in ticks
Ticks(seconds) == 2 * seconds
\* int(exp - time.time()): whole seconds, truncated
WholeSeconds(ticks) == ticks \div 2

---------------------------------------------------------------------------
(* dict: an insertion-ordered sequence of items, each carrying its key *)

DictKeys(d) == {d[i].key : i \in 1..Len(d)}
DictHas(d, k) == \E i \in 1..Len(d) : d[i].key = k
DictIdx(d, k) == CHOOSE i \in 1..Len(d) : d[i].key = k
DictGet(d, k) == d[DictIdx(d, k)]
DictSet(d, k, item) == IF DictHas(d, k) THEN [d EXCEPT ![DictIdx(d, k)] = item]
                       ELSE Append(d, item)
DictDel(d, k) == SelectSeq(d, LAMBDA x : x.key # k)

\* The tuple (type, value, expiration_timestamp) stored under a key.  The
\* value is in sval, lval or hval according to the type.
StringItem(k, v, exp) == [key |-> k, type |-> "string", sval |-> v, lval |-> <<>>, hval |-> <<>>, exp |-> exp]
ListItem(k, l, exp) == [key |-> k, type |-> "list", sval |-> "", lval |-> l, hval |-> <<>>, exp |-> exp]
HashItem(k, h, exp) == [key |-> k, type |-> "hash", sval |-> "", lval |-> <<>>, hval |-> h, exp |-> exp]
Field(f, v) == [key |-> f, val |-> v]

---------------------------------------------------------------------------
(* Results and exceptions of the dispatcher *)

\* A Python result: None, str, int, list; or a raised exception
RNil == [t |-> "nil", n |-> 0, s |-> "", l |-> <<>>]
RStr(s) == [t |-> "str", n |-> 0, s |-> s, l |-> <<>>]
RInt(n) == [t |-> "int", n |-> n, s |-> "", l |-> <<>>]
RList(l) == [t |-> "list", n |-> 0, s |-> "", l |-> l]
Raise(cls, msg) == [t |-> cls, n |-> 0, s |-> msg, l |-> <<>>]

Exceptions == {"CommandError", "WrongTypeError", "ValueError", "TypeError", "RuntimeError"}
IsExc(r) == r.t \in Exceptions

RECURSIVE StrList(_)
StrList(l) == IF l = <<>> THEN <<>> ELSE <<RStr(Head(l))>> \o StrList(Tail(l))

WrongType == Raise("WrongTypeError", "Operation against a key holding the wrong kind of value")
NotAnInt == Raise("ValueError", "invalid literal for int()")
BadArity == Raise("TypeError", "wrong number of positional arguments")

Out(d, r) == [d |-> d, r |-> r]

---------------------------------------------------------------------------
(* StorageEngine: the command implementations.  Each takes the dict d, the  *)
(* arguments and the clock t and yields the dict afterwards and the result. *)

IsExpired(item, t) == item.exp # None /\ t > item.exp[1]

\* Mutant: the expiry is found but the item is not deleted
check_and_delete_expired_keeps(d, key, t) ==
    [d |-> d, b |-> DictHas(d, key) /\ IsExpired(DictGet(d, key), t)]

\* Yields the dict afterwards and the bool the helper returns
check_and_delete_expired_unlocked(d, key, t) ==
    IF DictHas(d, key) /\ IsExpired(DictGet(d, key), t)
    THEN [d |-> DictDel(d, key), b |-> TRUE]
    ELSE [d |-> d, b |-> FALSE]

exec_GET(d, args, t) ==
    LET key == args[1]
        chk == check_and_delete_expired_unlocked(d, key, t)
    IN  IF chk.b THEN Out(chk.d, RNil)
        ELSE IF ~DictHas(d, key) THEN Out(d, RNil)
        ELSE IF DictGet(d, key).type # "string" THEN Out(d, WrongType)
        ELSE Out(d, RStr(DictGet(d, key).sval))

\* A SET that leaves the expiry of an existing key in place
exec_SET_keeps_expiry(d, args, t) ==
    IF Len(args) = 3 /\ ~IsIntTok(args[3]) THEN Out(d, NotAnInt)
    ELSE LET old == IF DictHas(d, args[1]) THEN DictGet(d, args[1]).exp ELSE None
             exp == IF Len(args) = 3 THEN <<t + Ticks(int(args[3]))>> ELSE old
         IN  Out(DictSet(d, args[1], StringItem(args[1], args[2], exp)), RStr("OK"))

exec_SET(d, args, t) ==
    LET key == args[1]
        value == args[2]
    IN  IF Len(args) = 3 /\ ~IsIntTok(args[3]) THEN Out(d, NotAnInt)
        ELSE LET expiration_time == IF Len(args) = 3 THEN <<t + Ticks(int(args[3]))>>
                                    ELSE None
             IN  Out(DictSet(d, key, StringItem(key, value, expiration_time)), RStr("OK"))

\* A DELETE that answers 0 for an entry whose expiry has passed
exec_DELETE_expired_zero(d, args, t) ==
    LET key == args[1]
        chk == check_and_delete_expired_unlocked(d, key, t)
    IN  IF chk.b THEN Out(chk.d, RInt(0))
        ELSE IF DictHas(d, key) THEN Out(DictDel(d, key), RInt(1))
        ELSE Out(d, RInt(0))

exec_DELETE(d, args, t) ==
    LET key == args[1]
        chk == check_and_delete_expired_unlocked(d, key, t)
    IN  IF chk.b THEN Out(chk.d, RInt(1))
        ELSE IF DictHas(d, key) THEN Out(DictDel(d, key), RInt(1))
        ELSE Out(d, RInt(0))

\* An EXPIRE that gives a missing key an empty entry carrying the expiry
exec_EXPIRE_creates(d, args, t) ==
    LET key == args[1]
        seconds == args[2]
        chk == check_and_delete_expired_unlocked(d, key, t)
    IN  IF chk.b \/ ~DictHas(chk.d, key)
        THEN IF IsIntTok(seconds)
             THEN Out(DictSet(chk.d, key, StringItem(key, "", <<t + Ticks(int(seconds))>>)),
                      RInt(0))
             ELSE Out(chk.d, RInt(0))
        ELSE IF ~IsIntTok(seconds) THEN Out(d, NotAnInt)
        ELSE Out(DictSet(d, key, [DictGet(d, key) EXCEPT !.exp = <<t + Ticks(int(seconds))>>]),
                 RInt(1))

exec_EXPIRE(d, args, t) ==
    LET key == args[1]
        seconds == args[2]
        chk == check_and_delete_expired_unlocked(d, key, t)
    IN  IF chk.b \/ ~DictHas(chk.d, key) THEN Out(chk.d, RInt(0))
        ELSE IF ~IsIntTok(seconds) THEN Out(d, NotAnInt)
        ELSE Out(DictSet(d, key, [DictGet(d, key) EXCEPT !.exp = <<t + Ticks(int(seconds))>>]),
                 RInt(1))

\* An LPUSH that puts the values at the head in the order given
exec_LPUSH_in_order(d, args, t) ==
    LET key == args[1]
        values == Tail(args)
        d1 == check_and_delete_expired_unlocked(d, key, t).d
    IN  IF ~DictHas(d1, key)
        THEN Out(DictSet(d1, key, ListItem(key, values, None)), RInt(Len(values)))
        ELSE IF DictGet(d1, key).type # "list" THEN Out(d1, WrongType)
        ELSE LET current_list == values \o DictGet(d1, key).lval
             IN  Out(DictSet(d1, key, [DictGet(d1, key) EXCEPT !.lval = current_list]),
                     RInt(Len(current_list)))

exec_LPUSH(d, args, t) ==
    LET key == args[1]
        values == Tail(args)
        d1 == check_and_delete_expired_unlocked(d, key, t).d
    IN  IF ~DictHas(d1, key)
        THEN Out(DictSet(d1, key, ListItem(key, reversed(values), None)), RInt(Len(values)))
        ELSE IF DictGet(d1, key).type # "list" THEN Out(d1, WrongType)
        ELSE LET current_list == reversed(values) \o DictGet(d1, key).lval
             IN  Out(DictSet(d1, key, [DictGet(d1, key) EXCEPT !.lval = current_list]),
                     RInt(Len(current_list)))

exec_LRANGE(d, args, t) ==
    LET key == args[1]
        chk == check_and_delete_expired_unlocked(d, key, t)
    IN  IF ~IsIntTok(args[2]) \/ ~IsIntTok(args[3]) THEN Out(d, NotAnInt)
        ELSE IF chk.b THEN Out(chk.d, RList(<<>>))
        ELSE IF ~DictHas(d, key) THEN Out(d, RList(<<>>))
        ELSE IF DictGet(d, key).type # "list" THEN Out(d, WrongType)
        ELSE LET current_list == DictGet(d, key).lval
                 start_idx == int(args[2])
                 stop_idx == int(args[3])
             IN  IF stop_idx = -1 THEN Out(d, RList(StrList(PySliceFrom(current_list, start_idx))))
                 ELSE Out(d, RList(StrList(PySlice(current_list, start_idx, stop_idx + 1))))

\* Mutant: HSET without the kind check, replacing whatever the key holds
exec_HSET_unchecked(d, args, t) ==
    LET d1 == check_and_delete_expired_unlocked(d, args[1], t).d
    IN  IF DictHas(d1, args[1]) /\ DictGet(d1, args[1]).type = "hash"
        THEN Out(DictSet(d1, args[1], [DictGet(d1, args[1]) EXCEPT
                    !.hval = DictSet(@, args[2], Field(args[2], args[3]))]), RInt(0))
        ELSE Out(DictSet(d1, args[1], HashItem(args[1], <<Field(args[2], args[3])>>, None)), RInt(1))

\* An HSET that replaces the stored hash by one holding the new field only
exec_HSET_fresh(d, args, t) ==
    LET key == args[1]
        field == args[2]
        value == args[3]
        d1 == check_and_delete_expired_unlocked(d, key, t).d
    IN  IF ~DictHas(d1, key)
        THEN Out(DictSet(d1, key, HashItem(key, <<Field(field, value)>>, None)), RInt(1))
        ELSE IF DictGet(d1, key).type # "hash" THEN Out(d1, WrongType)
        ELSE LET current_hash == DictGet(d1, key).hval
                 is_new == IF ~DictHas(current_hash, field) THEN 1 ELSE 0
             IN  Out(DictSet(d1, key, [DictGet(d1, key) EXCEPT
                                         !.hval = <<Field(field, value)>>]),
                     RInt(is_new))

exec_HSET(d, args, t) ==
    LET key == args[1]
        field == args[2]
        value == args[3]
        d1 == check_and_delete_expired_unlocked(d, key, t).d
    IN  IF ~DictHas(d1, key)
        THEN Out(DictSet(d1, key, HashItem(key, <<Field(field, value)>>, None)), RInt(1))
        ELSE IF DictGet(d1, key).type # "hash" THEN Out(d1, WrongType)
        ELSE LET current_hash == DictGet(d1, key).hval
                 is_new == IF ~DictHas(current_hash, field) THEN 1 ELSE 0
             IN  Out(DictSet(d1, key, [DictGet(d1, key) EXCEPT
                                         !.hval = DictSet(current_hash, field, Field(field, value))]),
                     RInt(is_new))

exec_HGET(d, args, t) ==
    LET key == args[1]
        field == args[2]
        chk == check_and_delete_expired_unlocked(d, key, t)
    IN  IF chk.b THEN Out(chk.d, RNil)
        ELSE IF ~DictHas(d, key) THEN Out(d, RNil)
        ELSE IF DictGet(d, key).type # "hash" THEN Out(d, WrongType)
        ELSE IF ~DictHas(DictGet(d, key).hval, field) THEN Out(d, RNil)
        ELSE Out(d, RStr(DictGet(DictGet(d, key).hval, field).val))

\* hasattr(self, "_exec_" + command_upper)
Methods == {"GET", "SET", "DELETE", "EXPIRE", "LPUSH", "LRANGE", "HSET", "HGET"}

\* Whether method(*args) binds: the positional parameters of each _exec_ method
Binds(m, n) ==
    CASE m = "GET" -> n = 1
      [] m = "SET" -> n \in {2, 3}
      [] m = "DELETE" -> n = 1
      [] m = "EXPIRE" -> n = 2
      [] m = "LPUSH" -> n >= 1
      [] m = "LRANGE" -> n = 3
      [] m = "HSET" -> n = 3
      [] m = "HGET" -> n = 2

\* await method(*args)
Call(d, m, args, t) ==
    IF ~Binds(m, Len(args)) THEN Out(d, BadArity)
    ELSE CASE m = "GET" -> exec_GET(d, args, t)
           [] m = "SET" -> exec_SET(d, args, t)
           [] m = "DELETE" -> exec_DELETE(d, args, t)
           [] m = "EXPIRE" -> exec_EXPIRE(d, args, t)
           [] m = "LPUSH" -> exec_LPUSH(d, args, t)
           [] m = "LRANGE" -> exec_LRANGE(d, args, t)
           [] m = "HSET" -> exec_HSET(d, args, t)
           [] m = "HGET" -> exec_HGET(d, args, t)

\* A write set that takes GET in
IsWrite_with_GET(command_upper) ==
    command_upper \in {"SET", "DELETE", "EXPIRE", "LPUSH", "HSET", "GET"}

\* A write set that leaves LPUSH out
IsWrite_without_LPUSH(command_upper) == command_upper \in {"SET", "DELETE", "EXPIRE", "HSET"}

\* is_write_command of execute_command and execute_transaction
IsWrite(command_upper) == command_upper \in {"SET", "DELETE", "EXPIRE", "LPUSH", "HSET"}

---------------------------------------------------------------------------
(* ProtocolHandler *)

Cmd(command, args) == [command |-> command, args |-> args]
NoCmd == Cmd("", <<>>)

\* parse_command: command_raw.strip().split(), then parts[0], parts[1:]
parse_command(frame) ==
    IF frame = <<>> THEN Out(NoCmd, Raise("CommandError", "Empty command"))
    ELSE Out(Cmd(Head(frame), Tail(frame)), RNil)

RECURSIVE Bulk(_)
Bulk(args) ==
    IF args = <<>> THEN <<>>
    ELSE <<"$" \o str(Len(Head(args))), Head(args)>> \o Bulk(Tail(args))

\* format_command_as_bytes, and the record AofHandler.write appends: the same text
format_command_as_bytes(command, args) ==
    <<"*" \o str(Len(args) + 1)>> \o Bulk(<<command>> \o args)

RECURSIVE format_response(_)
format_response(result) ==
    LET RECURSIVE Items(_)
        Items(l) == IF l = <<>> THEN <<>> ELSE format_response(Head(l)) \o Items(Tail(l))
    IN  CASE result.t = "nil" -> <<"_(nil)">>
          [] result.t = "str" ->
                IF result.s = "OK" \/ result.s = "QUEUED" THEN <<"+" \o result.s>>
                ELSE <<"$" \o str(Len(result.s)), result.s>>
          [] result.t = "int" -> <<":" \o str(result.n)>>
          [] result.t = "list" -> <<"*" \o str(Len(result.l))>> \o Items(result.l)
          [] result.t = "WrongTypeError" -> <<"-WRONGTYPE", result.s>>
          [] OTHER -> <<"-ERR", result.s>>

\* The except clauses of handle_client: what is replied when e was raised
error_response(e) ==
    IF e.t \in {"CommandError", "WrongTypeError", "ValueError"} THEN format_response(e)
    ELSE format_response(Raise("CommandError", "Server error"))

\* What handle_client writes for the outcome of a command
reply_of(r) == IF IsExc(r) THEN error_response(r) ELSE format_response(r)

---------------------------------------------------------------------------
(* Full sync *)

\* The commands get_all_data_as_commands appends for one item
ItemCommands(item, t) ==
    LET RECURSIVE Hsets(_)
        Hsets(h) == IF h = <<>> THEN <<>>
                    ELSE <<Cmd("HSET", <<item.key, Head(h).key, Head(h).val>>)>> \o Hsets(Tail(h))
        body == CASE item.type = "string" -> <<Cmd("SET", <<item.key, item.sval>>)>>
                  [] item.type = "list" ->
                        IF item.lval # <<>>
                        THEN <<Cmd("LPUSH", <<item.key>> \o reversed(item.lval))>>
                        ELSE <<>>
                  [] item.type = "hash" -> Hsets(item.hval)
        ttl == IF item.exp = None THEN 0 ELSE WholeSeconds(item.exp[1] - t)
    IN  body \o (IF ttl > 0 THEN <<Cmd("EXPIRE", <<item.key, str(ttl)>>)>> ELSE <<>>)

\* get_all_data_as_commands: the loop over self._data.items().  Deleting the
\* first expired item makes the dict iterator raise RuntimeError at its next step.
get_all_data_as_commands(d, t) ==
    LET RECURSIVE All(_)
        All(items) == IF items = <<>> THEN <<>>
                      ELSE ItemCommands(Head(items), t) \o All(Tail(items))
        expired == {i \in 1..Len(d) : IsExpired(d[i], t)}
        first == CHOOSE i \in expired : \A j \in expired : i <= j
    IN  IF expired # {}
        THEN [d |-> DictDel(d, d[first].key), cmds |-> <<>>,
              r |-> Raise("RuntimeError", "dictionary changed size during iteration")]
        ELSE [d |-> d, cmds |-> All(d), r |-> RNil]

---------------------------------------------------------------------------
(* The state after construction: main() of both processes has started the   *)
(* server, every connection is accepted and waits in reader.read.           *)

NoMark == [snap |-> 0, base |-> 0, join |-> 0]

InitWith(aofM, aofS) ==
    /\ now = 0
    /\ data = [s \in Servers |-> <<>>]
    /\ lock = [s \in Servers |-> "free"]
    /\ aof_open = [s \in Servers |-> IF s = "M" THEN aofM ELSE aofS]
    /\ aof = [s \in Servers |-> <<>>]
    /\ slaves = <<>>
    /\ closing = [c \in Conns |-> FALSE]
    /\ wire = [c \in Links |-> <<>>]
    /\ inflight = [c \in Links |-> <<>>]
    /\ pc = [c \in Conns |-> "read"]
    /\ in_transaction = [c \in Conns |-> FALSE]
    /\ command_queue = [c \in Conns |-> <<>>]
    /\ cur = [c \in Conns |-> NoCmd]
    /\ results = [c \in Conns |-> <<>>]
    /\ write_commands_in_txn = [c \in Conns |-> <<>>]
    /\ txn_pos = [c \in Conns |-> 0]
    /\ prop_pos = [c \in Conns |-> 0]
    /\ disconnected_slaves = [c \in Conns |-> <<>>]
    /\ response = [c \in Conns |-> <<>>]
    /\ rpc = "connect"
    /\ rpos = 0
    /\ snapshot_file = [s \in Servers |-> <<>>]
    /\ txn_base = [c \in Conns |-> <<>>]
    /\ mark = [c \in Links |-> NoMark]

---------------------------------------------------------------------------
(* handle_client: one frame *)

\* A replication manager that sees no replica
SlavesOf_none(s) == <<>>

\* self.slaves of the ReplicationManager of server s (add_slave runs on a master only)
SlavesOf(s) == IF s = "M" THEN slaves ELSE <<>>

\* The commands a replica refuses
is_write_command_gate(command) ==
    command \in {"SET", "DELETE", "EXPIRE", "LPUSH", "HSET", "MULTI"}

\* A lock that anyone can take at any time
Acquirable_always(s) == TRUE

\* async with self._lock: the lock can be taken
Acquirable(s) == lock[s] = "free"

\* The branch handle_client takes on a frame, up to its first await: the new
\* pc, in_transaction, command_queue and the reply it writes (none: <<>>).
handle_frame(c, frame) ==
    LET s == ServerOf(c)
        command == Head(frame)
        args == Tail(frame)
        Stay(tx, q, rep) == [pc |-> "read", tx |-> tx, q |-> q, cur |-> NoCmd, reply |-> <<rep>>]
        Go(to) == [pc |-> to, tx |-> in_transaction[c], q |-> command_queue[c],
                   cur |-> Cmd(command, args), reply |-> <<>>]
        Err(msg) == Stay(in_transaction[c], command_queue[c],
                         error_response(Raise("CommandError", msg)))
    IN  IF IsExc(parse_command(frame).r) THEN Err(parse_command(frame).r.s)
        ELSE IF command = "REPLICAOF" /\ role(s) = "master" THEN Go("add_slave")
        ELSE IF role(s) = "slave" /\ is_write_command_gate(command)
             THEN Err("READONLY You can't write against a read-only replica.")
        ELSE IF command = "MULTI"
             THEN IF in_transaction[c] THEN Err("MULTI calls cannot be nested")
                  ELSE Stay(TRUE, <<>>, format_response(RStr("OK")))
        ELSE IF command = "DISCARD"
             THEN IF ~in_transaction[c] THEN Err("DISCARD without MULTI")
                  ELSE Stay(FALSE, <<>>, format_response(RStr("OK")))
        ELSE IF command = "EXEC"
             THEN IF ~in_transaction[c] THEN Err("EXEC without MULTI")
                  ELSE Go("execute_transaction")
        ELSE IF in_transaction[c]
             THEN Stay(TRUE, Append(command_queue[c], Cmd(command, args)),
                       format_response(RStr("QUEUED")))
        ELSE IF upper(command) \notin Methods THEN Err("Unknown command")
        ELSE Go("execute_command")

\* Writing a reply to the socket of c: a replica link carries it to the replica
Written(w, c, rep) == IF c \in Links THEN [w EXCEPT ![c] = Append(@, rep)] ELSE w

\* The length the list under key would have after LPUSH of args
PushedLen(d, args, t) ==
    IF args = <<>> THEN 0
    ELSE IF DictHas(d, args[1]) /\ DictGet(d, args[1]).type = "list"
              /\ ~IsExpired(DictGet(d, args[1]), t)
         THEN Len(DictGet(d, args[1]).lval) + Len(args) - 1
         ELSE Len(args) - 1

\* The bounds of the model: a frame is taken while the journal, the queue and
\* the lists it would grow are within their bounds.
WithinBounds(c, frame) ==
    LET s == ServerOf(c)
        cmds == IF frame # <<>> /\ Head(frame) = "EXEC" THEN command_queue[c]
                ELSE IF frame # <<>> THEN <<Cmd(Head(frame), Tail(frame))>> ELSE <<>>
    IN  /\ Len(aof[s]) < MaxLog
        /\ \A l \in Links : Len(wire[l]) - mark[l].base < MaxLog
        /\ Len(command_queue[c]) < MaxQueue
              \/ ~in_transaction[c]
              \/ (frame # <<>> /\ Head(frame) \in {"EXEC", "DISCARD", "MULTI"})
        /\ \A i \in 1..Len(cmds) :
              upper(cmds[i].command) = "LPUSH"
                 => PushedLen(data[s], cmds[i].args, now) <= MaxListLen

\* A handler whose MULTI and DISCARD keep the old queue
Recv_keeps_queue(c, frame) ==
    /\ pc[c] = "read"
    /\ ~closing[c]
    /\ WithinBounds(c, frame)
    /\ LET nx == handle_frame(c, frame)
       IN  /\ pc' = [pc EXCEPT ![c] = nx.pc]
           /\ in_transaction' = [in_transaction EXCEPT ![c] = nx.tx]
           /\ command_queue' = [command_queue EXCEPT ![c] = IF nx.q = <<>> THEN @ ELSE nx.q]
           /\ cur' = [cur EXCEPT ![c] = nx.cur]
           /\ response' = [response EXCEPT ![c] = IF nx.reply = <<>> THEN <<>>
                                                  ELSE nx.reply[1]]
           /\ wire' = IF nx.reply = <<>> THEN wire ELSE Written(wire, c, nx.reply[1])
    /\ inflight' = [l \in Links |-> IF l = c THEN <<>> ELSE inflight[l]]
    /\ UNCHANGED <<snapshot_file, txn_base, now, data, lock, aof_open, aof, slaves, closing, results,
                   write_commands_in_txn, txn_pos, prop_pos, disconnected_slaves,
                   rpc, rpos, mark>>

\* A handler that answers QUEUED and drops the command
Recv_drops(c, frame) ==
    /\ pc[c] = "read"
    /\ ~closing[c]
    /\ WithinBounds(c, frame)
    /\ LET nx == handle_frame(c, frame)
       IN  /\ pc' = [pc EXCEPT ![c] = nx.pc]
           /\ in_transaction' = [in_transaction EXCEPT ![c] = nx.tx]
           /\ command_queue' = [command_queue EXCEPT ![c] = IF Len(nx.q) > Len(@) THEN @ ELSE nx.q]
           /\ cur' = [cur EXCEPT ![c] = nx.cur]
           /\ response' = [response EXCEPT ![c] = IF nx.reply = <<>> THEN <<>>
                                                  ELSE nx.reply[1]]
           /\ wire' = IF nx.reply = <<>> THEN wire ELSE Written(wire, c, nx.reply[1])
    /\ inflight' = [l \in Links |-> IF l = c THEN <<>> ELSE inflight[l]]
    /\ UNCHANGED <<snapshot_file, txn_base, now, data, lock, aof_open, aof, slaves, closing, results,
                   write_commands_in_txn, txn_pos, prop_pos, disconnected_slaves,
                   rpc, rpos, mark>>

\* One frame read by handle_client, up to the first await of its branch
Recv(c, frame) ==
    /\ pc[c] = "read"
    /\ ~closing[c]
    /\ WithinBounds(c, frame)
    /\ LET nx == handle_frame(c, frame)
       IN  /\ pc' = [pc EXCEPT ![c] = nx.pc]
           /\ in_transaction' = [in_transaction EXCEPT ![c] = nx.tx]
           /\ command_queue' = [command_queue EXCEPT ![c] = nx.q]
           /\ cur' = [cur EXCEPT ![c] = nx.cur]
           /\ response' = [response EXCEPT ![c] = IF nx.reply = <<>> THEN <<>>
                                                  ELSE nx.reply[1]]
           /\ wire' = IF nx.reply = <<>> THEN wire ELSE Written(wire, c, nx.reply[1])
    /\ inflight' = [l \in Links |-> IF l = c THEN <<>> ELSE inflight[l]]
    /\ UNCHANGED <<snapshot_file, txn_base, now, data, lock, aof_open, aof, slaves, closing, results,
                   write_commands_in_txn, txn_pos, prop_pos, disconnected_slaves,
                   rpc, rpos, mark>>

\* time passes
Tick ==
    /\ now < MaxTime
    /\ now' = now + 1
    /\ UNCHANGED <<snapshot_file, txn_base, data, lock, aof_open, aof, slaves, closing, wire, inflight, pc,
                   in_transaction, command_queue, cur, results, write_commands_in_txn,
                   txn_pos, prop_pos, disconnected_slaves, response, rpc, rpos, mark>>

---------------------------------------------------------------------------
(* StorageEngine.execute_command and ReplicationManager.propagate *)

\* AofHandler.write under "if self._aof"
aof_write(log, s, cmd) ==
    IF aof_open[s] THEN [log EXCEPT ![s] = Append(@, format_command_as_bytes(cmd.command, cmd.args))]
    ELSE log

\* execute_command, from taking the lock: the method, the AOF record and the
\* entry into propagate.  With no replica propagate returns at once, the lock
\* is released and handle_client writes the reply.
execute_command(c) ==
    /\ pc[c] = "execute_command"
    /\ Acquirable(ServerOf(c))
    /\ LET s == ServerOf(c)
           command_upper == upper(cur[c].command)
           out == Call(data[s], command_upper, cur[c].args, now)
           written == ~IsExc(out.r) /\ IsWrite(command_upper)
           fanout == written /\ SlavesOf(s) # <<>>
       IN  /\ data' = [data EXCEPT ![s] = out.d]
           /\ aof' = IF written THEN aof_write(aof, s, cur[c]) ELSE aof
           /\ lock' = IF fanout THEN [lock EXCEPT ![s] = c] ELSE lock
           /\ pc' = [pc EXCEPT ![c] = IF fanout THEN "propagate" ELSE "read"]
           /\ prop_pos' = [prop_pos EXCEPT ![c] = IF fanout THEN 1 ELSE 0]
           /\ results' = [results EXCEPT ![c] = IF fanout THEN <<out.r>> ELSE <<>>]
           /\ cur' = IF fanout THEN cur ELSE [cur EXCEPT ![c] = NoCmd]
           /\ response' = IF fanout THEN response ELSE [response EXCEPT ![c] = reply_of(out.r)]
           /\ wire' = IF fanout THEN wire ELSE Written(wire, c, reply_of(out.r))
    /\ UNCHANGED <<snapshot_file, txn_base, now, aof_open, slaves, closing, inflight, in_transaction, command_queue,
                   write_commands_in_txn, txn_pos, disconnected_slaves, rpc, rpos, mark>>

\* A propagate that leaves the disconnected writers in self.slaves
propagate_keeps_slaves(c) ==
    /\ pc[c] \in {"propagate", "txn_propagate"}
    /\ LET i == prop_pos[c]
           rec == IF pc[c] = "propagate" THEN cur[c]
                  ELSE write_commands_in_txn[c][txn_pos[c]]
           more == i <= Len(slaves)
           single == pc[c] = "propagate"
       IN  /\ prop_pos' = [prop_pos EXCEPT ![c] = IF more THEN i + 1 ELSE 0]
           /\ disconnected_slaves' =
                 [disconnected_slaves EXCEPT ![c] =
                     IF ~more THEN <<>>
                     ELSE IF closing[slaves[i]] THEN Append(@, slaves[i]) ELSE @]
           /\ slaves' = slaves
           /\ pc' = IF more THEN pc
                    ELSE [pc EXCEPT ![c] = IF single THEN "read" ELSE "txn_commit"]
           /\ txn_pos' = IF more \/ single THEN txn_pos
                         ELSE [txn_pos EXCEPT ![c] = @ + 1]
           /\ lock' = IF ~more /\ single THEN [lock EXCEPT !["M"] = "free"] ELSE lock
           /\ response' = IF ~more /\ single
                          THEN [response EXCEPT ![c] = reply_of(results[c][1])]
                          ELSE response
           /\ results' = IF ~more /\ single THEN [results EXCEPT ![c] = <<>>] ELSE results
           /\ cur' = IF ~more /\ single THEN [cur EXCEPT ![c] = NoCmd] ELSE cur
           /\ wire' = IF more
                      THEN IF closing[slaves[i]] THEN wire
                           ELSE [wire EXCEPT ![slaves[i]] =
                                    Append(@, format_command_as_bytes(rec.command, rec.args))]
                      ELSE IF single THEN Written(wire, c, reply_of(results[c][1]))
                      ELSE wire
    /\ UNCHANGED <<snapshot_file, txn_base, now, data, aof_open, aof, closing, inflight, in_transaction,
                   command_queue, write_commands_in_txn, rpc, rpos, mark>>

\* One turn of the loop "for slave_writer in self.slaves" of propagate (the
\* writer is skipped when closing, else written and drained), or, past the
\* end of the list, the removal of the disconnected writers and the return:
\* to execute_command, which releases the lock and lets handle_client reply,
\* or to the loop over write_commands_in_txn of execute_transaction.
propagate(c) ==
    /\ pc[c] \in {"propagate", "txn_propagate"}
    /\ LET i == prop_pos[c]
           rec == IF pc[c] = "propagate" THEN cur[c]
                  ELSE write_commands_in_txn[c][txn_pos[c]]
           more == i <= Len(slaves)
           single == pc[c] = "propagate"
       IN  /\ prop_pos' = [prop_pos EXCEPT ![c] = IF more THEN i + 1 ELSE 0]
           /\ disconnected_slaves' =
                 [disconnected_slaves EXCEPT ![c] =
                     IF ~more THEN <<>>
                     ELSE IF closing[slaves[i]] THEN Append(@, slaves[i]) ELSE @]
           /\ slaves' = IF more THEN slaves
                        ELSE SelectSeq(slaves, LAMBDA w :
                                \A j \in 1..Len(disconnected_slaves[c]) :
                                    disconnected_slaves[c][j] # w)
           /\ pc' = IF more THEN pc
                    ELSE [pc EXCEPT ![c] = IF single THEN "read" ELSE "txn_commit"]
           /\ txn_pos' = IF more \/ single THEN txn_pos
                         ELSE [txn_pos EXCEPT ![c] = @ + 1]
           /\ lock' = IF ~more /\ single THEN [lock EXCEPT !["M"] = "free"] ELSE lock
           /\ response' = IF ~more /\ single
                          THEN [response EXCEPT ![c] = reply_of(results[c][1])]
                          ELSE response
           /\ results' = IF ~more /\ single THEN [results EXCEPT ![c] = <<>>] ELSE results
           /\ cur' = IF ~more /\ single THEN [cur EXCEPT ![c] = NoCmd] ELSE cur
           /\ wire' = IF more
                      THEN IF closing[slaves[i]] THEN wire
                           ELSE [wire EXCEPT ![slaves[i]] =
                                    Append(@, format_command_as_bytes(rec.command, rec.args))]
                      ELSE IF single THEN Written(wire, c, reply_of(results[c][1]))
                      ELSE wire
    /\ UNCHANGED <<snapshot_file, txn_base, now, data, aof_open, aof, closing, inflight, in_transaction,
                   command_queue, write_commands_in_txn, rpc, rpos, mark>>

---------------------------------------------------------------------------
(* StorageEngine.execute_transaction *)

\* A loop that runs on past a raising command
Aborts_never(r) == FALSE

\* The except clause of the loop: the transaction stops at a raising command
Aborts(r) == IsExc(r)

\* async with self._lock of execute_transaction
txn_lock(c) ==
    /\ pc[c] = "execute_transaction"
    /\ Acquirable(ServerOf(c))
    /\ lock' = [lock EXCEPT ![ServerOf(c)] = c]
    /\ pc' = [pc EXCEPT ![c] = "txn_run"]
    /\ txn_pos' = [txn_pos EXCEPT ![c] = 1]
    /\ results' = [results EXCEPT ![c] = <<>>]
    /\ write_commands_in_txn' = [write_commands_in_txn EXCEPT ![c] = <<>>]
    /\ txn_base' = [txn_base EXCEPT ![c] = data[ServerOf(c)]]
    /\ UNCHANGED <<snapshot_file, now, data, aof_open, aof, slaves, closing, wire, inflight,
                   in_transaction, command_queue, cur, prop_pos, disconnected_slaves,
                   response, rpc, rpos, mark>>

\* What EXEC leaves in handle_client when execute_transaction raised: the
\* assignments after the call are skipped.
after_abort(c) == [tx |-> in_transaction[c], q |-> command_queue[c]]

\* One turn of the loop "for command, args in command_queue".  An unknown
\* command or a raising method raises CommandError out of the lock; past the
\* end of the queue the loop over write_commands_in_txn starts.
txn_step(c) ==
    /\ pc[c] = "txn_run"
    /\ LET s == ServerOf(c)
           i == txn_pos[c]
           more == i <= Len(command_queue[c])
           cmd == command_queue[c][i]
           command_upper == upper(cmd.command)
           known == command_upper \in Methods
           out == IF known THEN Call(data[s], command_upper, cmd.args, now)
                  ELSE Out(data[s], Raise("CommandError", "Unknown command in transaction"))
           raised == more /\ (~known \/ Aborts(out.r))
           e == IF known THEN Raise("CommandError", "Transaction aborted: " \o out.r.s)
                ELSE out.r
       IN  /\ data' = IF more THEN [data EXCEPT ![s] = out.d] ELSE data
           /\ lock' = IF raised THEN [lock EXCEPT ![s] = "free"] ELSE lock
           /\ pc' = [pc EXCEPT ![c] = IF raised THEN "read"
                                      ELSE IF more THEN "txn_run" ELSE "txn_commit"]
           /\ txn_pos' = [txn_pos EXCEPT ![c] = IF raised THEN 0
                                                ELSE IF more THEN i + 1 ELSE 1]
           /\ results' = [results EXCEPT ![c] = IF raised THEN <<>>
                                                ELSE IF more THEN Append(@, out.r) ELSE @]
           /\ write_commands_in_txn' =
                 [write_commands_in_txn EXCEPT ![c] =
                     IF raised THEN <<>>
                     ELSE IF more /\ IsWrite(command_upper) THEN Append(@, cmd) ELSE @]
           /\ in_transaction' = IF raised THEN [in_transaction EXCEPT ![c] = after_abort(c).tx]
                                ELSE in_transaction
           /\ command_queue' = IF raised THEN [command_queue EXCEPT ![c] = after_abort(c).q]
                               ELSE command_queue
           /\ cur' = IF raised THEN [cur EXCEPT ![c] = NoCmd] ELSE cur
           /\ response' = IF raised THEN [response EXCEPT ![c] = error_response(e)]
                          ELSE response
           /\ wire' = IF raised THEN Written(wire, c, error_response(e)) ELSE wire
           /\ txn_base' = IF raised THEN [txn_base EXCEPT ![c] = <<>>] ELSE txn_base
    /\ UNCHANGED <<snapshot_file, now, aof_open, aof, slaves, closing, inflight, prop_pos,
                   disconnected_slaves, rpc, rpos, mark>>

\* One turn of the loop "for cmd, ags in write_commands_in_txn": the AOF
\* record and the entry into propagate; past the end the lock is released,
\* handle_client leaves the transaction and replies the results.
txn_commit(c) ==
    /\ pc[c] = "txn_commit"
    /\ LET s == ServerOf(c)
           j == txn_pos[c]
           more == j <= Len(write_commands_in_txn[c])
           fanout == more /\ SlavesOf(s) # <<>>
           rep == format_response(RList(results[c]))
       IN  /\ aof' = IF more THEN aof_write(aof, s, write_commands_in_txn[c][j]) ELSE aof
           /\ pc' = [pc EXCEPT ![c] = IF fanout THEN "txn_propagate"
                                      ELSE IF more THEN "txn_commit" ELSE "read"]
           /\ prop_pos' = [prop_pos EXCEPT ![c] = IF fanout THEN 1 ELSE 0]
           /\ txn_pos' = [txn_pos EXCEPT ![c] = IF fanout THEN j
                                                ELSE IF more THEN j + 1 ELSE 0]
           /\ lock' = IF more THEN lock ELSE [lock EXCEPT ![s] = "free"]
           /\ in_transaction' = IF more THEN in_transaction
                                ELSE [in_transaction EXCEPT ![c] = FALSE]
           /\ command_queue' = IF more THEN command_queue
                               ELSE [command_queue EXCEPT ![c] = <<>>]
           /\ results' = IF more THEN results ELSE [results EXCEPT ![c] = <<>>]
           /\ write_commands_in_txn' = IF more THEN write_commands_in_txn
                                       ELSE [write_commands_in_txn EXCEPT ![c] = <<>>]
           /\ cur' = IF more THEN cur ELSE [cur EXCEPT ![c] = NoCmd]
           /\ response' = IF more THEN response ELSE [response EXCEPT ![c] = rep]
           /\ wire' = IF more THEN wire ELSE Written(wire, c, rep)
           /\ txn_base' = IF more THEN txn_base ELSE [txn_base EXCEPT ![c] = <<>>]
    /\ UNCHANGED <<snapshot_file, now, data, aof_open, slaves, closing, inflight, disconnected_slaves,
                   rpc, rpos, mark>>

---------------------------------------------------------------------------
(* ReplicationManager.add_slave *)

\* add_slave up to "await writer.drain()": get_all_data_as_commands under the
\* lock, then every command written to the replica's socket.  When the full
\* sync raises, handle_client replies "Server error" and goes on reading.
add_slave(c) ==
    /\ pc[c] = "add_slave"
    /\ Acquirable(ServerOf(c))
    /\ LET s == ServerOf(c)
           sync == get_all_data_as_commands(data[s], now)
           failed == IsExc(sync.r)
           RECURSIVE Bytes(_)
           Bytes(cmds) == IF cmds = <<>> THEN <<>>
                          ELSE <<format_command_as_bytes(Head(cmds).command, Head(cmds).args)>>
                               \o Bytes(Tail(cmds))
       IN  /\ data' = [data EXCEPT ![s] = sync.d]
           /\ pc' = [pc EXCEPT ![c] = IF failed THEN "read" ELSE "drain"]
           /\ cur' = IF failed THEN [cur EXCEPT ![c] = NoCmd] ELSE cur
           /\ response' = IF failed THEN [response EXCEPT ![c] = error_response(sync.r)]
                          ELSE response
           /\ wire' = IF failed THEN Written(wire, c, error_response(sync.r))
                      ELSE [wire EXCEPT ![c] = @ \o Bytes(sync.cmds)]
           /\ mark' = IF failed THEN mark
                      ELSE [mark EXCEPT ![c] = [snap |-> Len(aof[s]),
                                                base |-> Len(wire[c]) + Len(sync.cmds),
                                                join |-> 0]]
    /\ UNCHANGED <<snapshot_file, txn_base, now, lock, aof_open, aof, slaves, closing, inflight, in_transaction,
                   command_queue, results, write_commands_in_txn, txn_pos, prop_pos,
                   disconnected_slaves, rpc, rpos>>

\* A propagate loop is running: the command it carries was journalled but is
\* still to be written to the writers at the end of self.slaves
Propagating == \E d \in Conns : pc[d] \in {"propagate", "txn_propagate"}

\* add_slave after the drain: self.slaves.append(writer); handle_client then
\* waits in writer.wait_closed()
join(c) ==
    /\ pc[c] = "drain"
    /\ slaves' = Append(slaves, c)
    /\ pc' = [pc EXCEPT ![c] = "wait_closed"]
    /\ cur' = [cur EXCEPT ![c] = NoCmd]
    /\ mark' = [mark EXCEPT ![c].join = Len(aof[ServerOf(c)]) - (IF Propagating THEN 1 ELSE 0)]
    /\ UNCHANGED <<snapshot_file, txn_base, now, data, lock, aof_open, aof, closing, wire, inflight, in_transaction,
                   command_queue, results, write_commands_in_txn, txn_pos, prop_pos,
                   disconnected_slaves, response, rpc, rpos>>

\* The peer of a replica link goes away: the writer is closing, and a handler
\* waiting in reader.read or writer.wait_closed ends
link_close(c) ==
    /\ c \in Links
    /\ ~closing[c]
    /\ pc[c] \in {"read", "wait_closed"}
    /\ closing' = [closing EXCEPT ![c] = TRUE]
    /\ pc' = [pc EXCEPT ![c] = "closed"]
    /\ UNCHANGED <<snapshot_file, txn_base, now, data, lock, aof_open, aof, slaves, wire, inflight, in_transaction,
                   command_queue, cur, results, write_commands_in_txn, txn_pos, prop_pos,
                   disconnected_slaves, response, rpc, rpos, mark>>

---------------------------------------------------------------------------
(* ReplicationManager.connect_to_master, on the replica *)

\* The handshake as connect_to_master writes it
Handshake == format_command_as_bytes("REPLICAOF", <<"listening-port", "6381">>)

\* open_connection succeeded and the handshake is written to the link.  rpc
\* is "connect" in the first turn of the outer loop, where the local name
\* writer is not bound yet, and "reconnect" in the later ones.
connect_to_master ==
    /\ rpc \in {"connect", "reconnect"}
    /\ inflight' = [inflight EXCEPT !["r1"] = <<Handshake>>]
    /\ rpc' = "recv"
    /\ UNCHANGED <<snapshot_file, txn_base, now, data, lock, aof_open, aof, slaves, closing, wire, pc,
                   in_transaction, command_queue, cur, results, write_commands_in_txn,
                   txn_pos, prop_pos, disconnected_slaves, response, rpos, mark>>

\* One turn of the receive loop: reader.read yields one record of the link
\* (the loop's assumption of one command per read), parse_command splits it
\* and execute_command applies it with propagate_func=None; an exception is
\* logged.
receive(l) ==
    /\ rpc = "recv"
    /\ rpos < Len(wire[l])
    /\ Acquirable("S")
    /\ LET parsed == parse_command(wire[l][rpos + 1])
           command_upper == upper(parsed.d.command)
           runs == ~IsExc(parsed.r) /\ command_upper \in Methods
           out == Call(data["S"], command_upper, parsed.d.args, now)
           written == runs /\ ~IsExc(out.r) /\ IsWrite(command_upper)
       IN  /\ data' = IF runs THEN [data EXCEPT !["S"] = out.d] ELSE data
           /\ aof' = IF written THEN aof_write(aof, "S", parsed.d) ELSE aof
    /\ rpos' = rpos + 1
    /\ UNCHANGED <<snapshot_file, txn_base, now, lock, aof_open, slaves, closing, wire, inflight, pc,
                   in_transaction, command_queue, cur, results, write_commands_in_txn,
                   txn_pos, prop_pos, disconnected_slaves, response, rpc, mark>>

\* open_connection raises (ConnectionRefusedError or another exception): the
\* handler logs it and the loop body goes on to writer.close() (line 398),
\* which raises UnboundLocalError outside the try when no connection was
\* ever opened, ending the task; otherwise it closes the old writer again
\* and sleeps.
connect_refused ==
    /\ rpc \in {"connect", "reconnect"}
    /\ rpc' = IF rpc = "connect" THEN "dead" ELSE "sleep"
    /\ UNCHANGED <<snapshot_file, txn_base, now, data, lock, aof_open, aof, slaves, closing, wire,
                   inflight, pc, in_transaction, command_queue, cur, results,
                   write_commands_in_txn, txn_pos, prop_pos, disconnected_slaves, response,
                   rpos, mark>>

\* The connection to the master is lost while the replica waits in
\* reader.read: the inner loop breaks, the writer is closed and the task
\* sleeps.  On the master the handler of the link, idle in reader.read and
\* not a member of self.slaves, ends; the link is as new for the next
\* connection.
master_lost(l) ==
    /\ rpc = "recv"
    /\ pc[l] = "read"
    /\ \A i \in 1..Len(slaves) : slaves[i] # l
    /\ rpc' = "sleep"
    /\ rpos' = 0
    /\ wire' = [wire EXCEPT ![l] = <<>>]
    /\ inflight' = [inflight EXCEPT ![l] = <<>>]
    /\ mark' = [mark EXCEPT ![l] = NoMark]
    /\ in_transaction' = [in_transaction EXCEPT ![l] = FALSE]
    /\ command_queue' = [command_queue EXCEPT ![l] = <<>>]
    /\ response' = [response EXCEPT ![l] = <<>>]
    /\ UNCHANGED <<snapshot_file, txn_base, now, data, lock, aof_open, aof, slaves, closing, pc,
                   cur, results, write_commands_in_txn, txn_pos, prop_pos, disconnected_slaves>>

\* asyncio.sleep(5) returns and the outer loop takes its next turn
backoff ==
    /\ rpc = "sleep"
    /\ rpc' = "reconnect"
    /\ UNCHANGED <<snapshot_file, txn_base, now, data, lock, aof_open, aof, slaves, closing, wire,
                   inflight, pc, in_transaction, command_queue, cur, results,
                   write_commands_in_txn, txn_pos, prop_pos, disconnected_slaves, response,
                   rpos, mark>>

\* What reader.read of connect_to_master is given: the peer the replica is
\* connected to writes one line to the link
master_writes(l, frame) ==
    /\ rpc = "recv"
    /\ Len(wire[l]) < MaxLog
    /\ wire' = [wire EXCEPT ![l] = Append(@, frame)]
    /\ UNCHANGED <<snapshot_file, txn_base, now, data, lock, aof_open, aof, slaves, closing,
                   inflight, pc, in_transaction, command_queue, cur, results,
                   write_commands_in_txn, txn_pos, prop_pos, disconnected_slaves, response,
                   rpc, rpos, mark>>

\* The frame a replica link carries
LinkFrames(c) == {inflight[c][i] : i \in 1..Len(inflight[c])}

---------------------------------------------------------------------------
(* Spec: one client of the master, every command of the catalog, the clock *)

Keys == {"k1", "k2"}

Frames ==
    {<<"SET", "k1", "a">>, <<"SET", "k1", "b">>, <<"SET", "k2", "a">>,
     <<"SET", "k1", "a", "0">>, <<"SET", "k1", "a", "1">>, <<"SET", "k1", "a", "x">>,
     <<"SET", "k1", "a", "EX", "1">>,
     <<"GET", "k1">>, <<"GET", "k2">>, <<"get", "k1">>, <<"GET">>,
     <<"DELETE", "k1">>,
     <<"EXPIRE", "k1", "0">>, <<"EXPIRE", "k1", "1">>, <<"EXPIRE", "k1", "x">>,
     <<"LPUSH", "k1", "a", "b">>, <<"LPUSH", "k1", "b">>, <<"LPUSH", "k1">>,
     <<"LRANGE", "k1", "0", "-1">>, <<"LRANGE", "k1", "0", "0">>, <<"LRANGE", "k1", "x", "0">>,
     <<"HSET", "k1", "f", "a">>, <<"HSET", "k1", "f", "b">>, <<"HSET", "k1", "g", "a">>,
     <<"HGET", "k1", "f">>, <<"HGET", "k1", "g">>,
     <<"NOPE", "k1">>, <<>>}

Init == InitWith(FALSE, FALSE)

Next ==
    \/ \E f \in Frames : Recv("c1", f)
    \/ execute_command("c1")
    \/ Tick

Spec == Init /\ [][Next]_vars

---------------------------------------------------------------------------
(* Vocabulary of the claims *)

\* In this step the dispatcher ran the command of connection c
Ran(c) == pc[c] = "execute_command" /\ pc'[c] # "execute_command"

\* The kind a typed command works on
TargetKind(m) ==
    CASE m \in {"GET"} -> "string"
      [] m \in {"LPUSH", "LRANGE"} -> "list"
      [] m \in {"HSET", "HGET"} -> "hash"
      [] OTHER -> "any"

\* The command has the arguments the catalog gives it
CatalogArity(cmd) ==
    /\ upper(cmd.command) \in Methods
    /\ Binds(upper(cmd.command), Len(cmd.args))

\* d holds, at time t, a live item under the key of cmd whose kind is not the
\* kind cmd works on
KindMismatch(d, cmd, t) ==
    /\ TargetKind(upper(cmd.command)) # "any"
    /\ CatalogArity(cmd)
    /\ DictHas(d, cmd.args[1])
    /\ ~IsExpired(DictGet(d, cmd.args[1]), t)
    /\ DictGet(d, cmd.args[1]).type # TargetKind(upper(cmd.command))

IntegerIndices(cmd) ==
    upper(cmd.command) = "LRANGE" => IsIntTok(cmd.args[2]) /\ IsIntTok(cmd.args[3])

AsIfAbsent(c) ==
    LET s == ServerOf(c)
        out == Call(DictDel(data[s], cur[c].args[1]), upper(cur[c].command), cur[c].args, now)
    IN  /\ data'[s] = out.d
        /\ response'[c] = reply_of(out.r)

\* The command of c has a key, and the item under it has an expiry e
HasExpiry(c) ==
    /\ CatalogArity(cur[c])
    /\ DictHas(data[ServerOf(c)], cur[c].args[1])
    /\ DictGet(data[ServerOf(c)], cur[c].args[1]).exp # None
ExpiryOf(c) == DictGet(data[ServerOf(c)], cur[c].args[1]).exp[1]

\* C5 as claimed: an item whose expiry e is at or before the time t2 of an
\* access (e <= t2) reads as nil (GET, HGET) or empty (LRANGE) and is gone
\* afterwards, and LPUSH, HSET, EXPIRE and DELETE act as on an absent key.
C5_AsClaimed ==
    [][\A c \in Conns :
          Ran(c) /\ HasExpiry(c) /\ ExpiryOf(c) <= now
             => LET m == upper(cur[c].command)
                    s == ServerOf(c)
                IN  /\ m \in {"GET", "HGET"}
                          => response'[c] = <<"_(nil)">> /\ ~DictHas(data'[s], cur[c].args[1])
                    /\ m = "LRANGE"
                          => response'[c] = <<"*0">> /\ ~DictHas(data'[s], cur[c].args[1])
                    /\ m \in {"LPUSH", "HSET", "EXPIRE", "DELETE"} => AsIfAbsent(c)]_vars

\* C5 (amended): an item whose expiry e is strictly before the time t2 of an
\* access (e < t2; at e = t2 it is still live) reads as nil (GET, HGET) or
\* empty (LRANGE with integer indices) and is gone afterwards; LPUSH, HSET and
\* EXPIRE act as on an absent key; DELETE removes it and answers 1.
C5_ExpiredIsAbsent ==
    [][\A c \in Conns :
          Ran(c) /\ HasExpiry(c) /\ ExpiryOf(c) < now
             => LET m == upper(cur[c].command)
                    s == ServerOf(c)
                IN  /\ m \in {"GET", "HGET"}
                          => response'[c] = <<"_(nil)">> /\ ~DictHas(data'[s], cur[c].args[1])
                    /\ m = "LRANGE" /\ IntegerIndices(cur[c])
                          => response'[c] = <<"*0">> /\ ~DictHas(data'[s], cur[c].args[1])
                    /\ m \in {"LPUSH", "HSET", "EXPIRE"} => AsIfAbsent(c)
                    /\ m = "DELETE"
                          => response'[c] = <<":1">> /\ ~DictHas(data'[s], cur[c].args[1])
                             /\ data'[s] = DictDel(data[s], cur[c].args[1])]_vars

\* A read is about to run on an item whose expiry has passed
C5_Witness ==
    \E c \in Conns :
        /\ pc[c] = "execute_command"
        /\ upper(cur[c].command) \in {"GET", "HGET", "LRANGE"}
        /\ HasExpiry(c)
        /\ ExpiryOf(c) < now

---------------------------------------------------------------------------
(* StorageEngine.save_snapshot, run by periodic_snapshot *)

(* JSON values, as json.dump writes and json.load reads them *)
JValue(j, s, n, a, o) == [j |-> j, s |-> s, n |-> n, a |-> a, o |-> o]
JNull == JValue("null", "", 0, <<>>, <<>>)
JStr(s) == JValue("str", s, 0, <<>>, <<>>)
JNum(n) == JValue("num", "", n, <<>>, <<>>)
\* An array of values
JArr(a) == JValue("arr", "", 0, a, <<>>)
\* An object: its members [key, val] in the order written
JObj(o) == JValue("obj", "", 0, <<>>, o)
Member(k, v) == [key |-> k, val |-> v]

\* json.dump(self._data, f): an object with one member per key, in dict
\* order; the tuple (type, value, expiration_time) becomes an array of three,
\* a str a string, a list an array, a dict an object, None null and the
\* float a number.
json_dump(d) ==
    LET value(item) ==
            CASE item.type = "string" -> JStr(item.sval)
              [] item.type = "list" -> JArr([i \in 1..Len(item.lval) |-> JStr(item.lval[i])])
              [] item.type = "hash" ->
                    JObj([i \in 1..Len(item.hval) |->
                             Member(item.hval[i].key, JStr(item.hval[i].val))])
        expiry(item) == IF item.exp = None THEN JNull ELSE JNum(item.exp[1])
    IN  JObj([i \in 1..Len(d) |->
                 Member(d[i].key, JArr(<<JStr(d[i].type), value(d[i]), expiry(d[i])>>))])

\* json.load(f): the dict of the document.  Each entry is the list [type,
\* value, expiration_time] where the engine had stored a tuple; every reader
\* of an entry unpacks it by position (lines 75, 153, 173, 184, 194, 205,
\* 215, 225), so the entry is the same item.
json_load(doc) ==
    LET item(m) ==
            LET array == m.val.a
                value == array[2]
            IN  [key |-> m.key,
                 type |-> array[1].s,
                 sval |-> IF value.j = "str" THEN value.s ELSE "",
                 lval |-> IF value.j = "arr" THEN [i \in 1..Len(value.a) |-> value.a[i].s]
                          ELSE <<>>,
                 hval |-> IF value.j = "obj"
                          THEN [i \in 1..Len(value.o) |-> Field(value.o[i].key, value.o[i].val.s)]
                          ELSE <<>>,
                 exp |-> IF array[3].j = "null" THEN None ELSE <<array[3].n>>]
    IN  [i \in 1..Len(doc.o) |-> item(doc.o[i])]

\* A sweep that purges nothing
SweepExpired_none(d, keys, t) == d

\* The loop over list(self._data.keys()) that purges the expired keys
RECURSIVE SweepExpired(_, _, _)
SweepExpired(d, keys, t) ==
    IF keys = <<>> THEN d
    ELSE SweepExpired(check_and_delete_expired_unlocked(d, Head(keys), t).d, Tail(keys), t)

\* One round of periodic_snapshot, which main starts on a master in
\* persistence mode snapshot: under the lock, purge and dump.
save_snapshot(s) ==
    /\ role(s) = "master"
    /\ ~aof_open[s]
    /\ Acquirable(s)
    /\ LET swept == SweepExpired(data[s], [i \in 1..Len(data[s]) |-> data[s][i].key], now)
       IN  /\ data' = [data EXCEPT ![s] = swept]
           /\ snapshot_file' = [snapshot_file EXCEPT ![s] = <<json_dump(swept)>>]
    /\ UNCHANGED <<txn_base, now, lock, aof_open, aof, slaves, closing, wire, inflight, pc,
                   in_transaction, command_queue, cur, results, write_commands_in_txn,
                   txn_pos, prop_pos, disconnected_slaves, response, rpc, rpos, mark>>

\* The process of s, a master no replica is attached to, stops and is started
\* again in persistence mode snapshot: its connections are gone, the storage
\* engine is constructed empty and load_from_snapshot replaces the keyspace
\* by json.load of the file, if there is one.
load_from_snapshot(s) ==
    /\ role(s) = "master"
    /\ ~aof_open[s]
    /\ slaves = <<>>
    /\ LET mine == {c \in Conns : ServerOf(c) = s}
           reset(f, v) == [c \in Conns |-> IF c \in mine THEN v ELSE f[c]]
       IN  /\ data' = [data EXCEPT ![s] = IF snapshot_file[s] = <<>> THEN <<>>
                                          ELSE json_load(snapshot_file[s][1])]
           /\ lock' = [lock EXCEPT ![s] = "free"]
           /\ pc' = reset(pc, "read")
           /\ in_transaction' = reset(in_transaction, FALSE)
           /\ command_queue' = reset(command_queue, <<>>)
           /\ cur' = reset(cur, NoCmd)
           /\ results' = reset(results, <<>>)
           /\ write_commands_in_txn' = reset(write_commands_in_txn, <<>>)
           /\ txn_pos' = reset(txn_pos, 0)
           /\ prop_pos' = reset(prop_pos, 0)
           /\ disconnected_slaves' = reset(disconnected_slaves, <<>>)
           /\ response' = reset(response, <<>>)
           /\ txn_base' = reset(txn_base, <<>>)
    /\ UNCHANGED <<snapshot_file, now, aof_open, aof, slaves, closing, wire, inflight,
                   rpc, rpos, mark>>

---------------------------------------------------------------------------
(* SpecTxn: a master in persistence mode aof; c1 runs MULTI/EXEC batches,   *)
(* c2 single commands, and the peer of r1 attaches as a replica            *)

\* The frame of a peer that asks the master for replication in the line form
\* handle_client parses
AttachFrames == {<<"REPLICAOF", "listening-port", "6381">>}

TxnFrames ==
    {<<"MULTI">>, <<"EXEC">>,
     <<"SET", "k1", "a">>, <<"LPUSH", "k1", "b">>, <<"GET", "k1">>, <<"NOPE", "k1">>}

OtherFrames == {<<"SET", "k1", "b">>}

InitTxn == InitWith(TRUE, FALSE)

NextTxn ==
    \/ \E f \in TxnFrames : Recv("c1", f)
    \/ \E f \in OtherFrames : Recv("c2", f)
    \/ \E f \in AttachFrames : Recv("r1", f)
    \/ \E c \in {"c1", "c2"} : execute_command(c)
    \/ \E c \in {"c1", "c2"} : propagate(c)
    \/ txn_lock("c1")
    \/ txn_step("c1")
    \/ txn_commit("c1")
    \/ add_slave("r1")
    \/ join("r1")

SpecTxn == InitTxn /\ [][NextTxn]_vars

---------------------------------------------------------------------------
(* Vocabulary of the claims about MULTI/EXEC *)

\* c is in the command loop of EXEC and takes a turn of it
BatchTurn(c) ==
    /\ pc[c] = "txn_run"
    /\ pc'[c] # "txn_run" \/ txn_pos'[c] # txn_pos[c]

\* The queued command c's EXEC is about to run is there and raises
Failing(c) ==
    LET q == command_queue[c]
        i == txn_pos[c]
    IN  /\ pc[c] = "txn_run"
        /\ i <= Len(q)
        /\ \/ upper(q[i].command) \notin Methods
           \/ IsExc(Call(data[ServerOf(c)], upper(q[i].command), q[i].args, now).r)

\* The replies of an aborted EXEC
AbortReplies ==
    {<<"-ERR", "Transaction aborted: " \o e.s>> : e \in {WrongType, NotAnInt, BadArity}}
       \cup {<<"-ERR", "Unknown command in transaction">>}

\* C1: when EXEC runs a queued batch and a command in it raises, the batch
\* stops there: the turn that meets the failing command changes no key, ends
\* the batch with the lock free and the connection back in its read loop with
\* one error reply; and while the batch is in its command loop no AOF record
\* is written and nothing is written to a replica link.
C1_AbortStopsBatch ==
    [][\A c \in Conns :
          /\ pc[c] = "txn_run" =>
                /\ aof' = aof
                /\ wire' = wire
          /\ BatchTurn(c) /\ Failing(c) =>
                /\ data' = data
                /\ pc'[c] = "read"
                /\ lock'[ServerOf(c)] = "free"
                /\ response'[c] \in AbortReplies]_vars

\* A batch was aborted while the journal was open and a replica was attached
C1_Witness ==
    /\ aof_open["M"]
    /\ slaves # <<>>
    /\ ~closing[slaves[1]]
    /\ response["c1"] \in AbortReplies
    /\ data["M"] # <<>>

\* C2 as claimed: EXEC is all-or-nothing, so the keyspace after an aborted
\* EXEC is the keyspace the EXEC started from.
C2_AsClaimed ==
    [][\A c \in Conns :
          BatchTurn(c) /\ Failing(c) => data'[ServerOf(c)] = txn_base[c]]_vars

---------------------------------------------------------------------------
(* Vocabulary of the claims about the append-only file *)

WriteSet == {"SET", "DELETE", "EXPIRE", "LPUSH", "HSET"}

\* The record of a command in the append-only file
Record(cmd) == format_command_as_bytes(cmd.command, cmd.args)

\* The single command c is about to run is a write that succeeds
SucceedsWrite(c) ==
    /\ upper(cur[c].command) \in WriteSet
    /\ ~IsExc(Call(data[ServerOf(c)], upper(cur[c].command), cur[c].args, now).r)

\* The write commands of the batch of c, in buffer order
BatchWrites(c) == SelectSeq(command_queue[c], LAMBDA m : upper(m.command) \in WriteSet)

Records(cmds) == [i \in 1..Len(cmds) |-> Record(cmds[i])]

Suffix(seq, n) == SubSeq(seq, Len(seq) - n + 1, Len(seq))

\* c takes a turn of the loop over the writes of its successful batch
CommitTurn(c) ==
    /\ pc[c] = "txn_commit"
    /\ pc'[c] # "txn_commit" \/ txn_pos'[c] # txn_pos[c]

\* C6: with AOF configured the journal grows by exactly the successful
\* writes, in apply order.  A single command that is a succeeding write
\* appends its record in the step that applies it, under the lock, and any
\* other single command appends nothing; the command loop of EXEC appends
\* nothing; the loop over the writes of a successful batch appends them one
\* by one in buffer order while the lock is held; nothing else changes the
\* journal.  When the reply of a propagated write is sent its record is the
\* last of the journal, and when the reply of a successful EXEC is sent, at
\* the release of the lock, the journal ends with the records of the writes
\* of the batch, contiguous and in buffer order.
C6_JournalFollowsApplyOrder ==
    [][/\ \A c \in Conns :
            LET s == ServerOf(c)
                w == BatchWrites(c)
            IN  /\ Ran(c) =>
                      aof'[s] = IF SucceedsWrite(c) THEN Append(aof[s], Record(cur[c]))
                                ELSE aof[s]
                /\ pc[c] = "propagate" /\ pc'[c] = "read" =>
                      /\ aof' = aof
                      /\ aof[s] # <<>> /\ aof[s][Len(aof[s])] = Record(cur[c])
                      /\ lock[s] = c
                /\ pc[c] = "txn_run" => aof' = aof
                /\ CommitTurn(c) /\ pc'[c] # "read" =>
                      /\ txn_pos[c] <= Len(w)
                      /\ aof'[s] = Append(aof[s], Record(w[txn_pos[c]]))
                      /\ lock[s] = c /\ lock'[s] = c
                /\ CommitTurn(c) /\ pc'[c] = "read" =>
                      /\ aof' = aof
                      /\ lock[s] = c
                      /\ Len(aof[s]) >= Len(w)
                      /\ Suffix(aof[s], Len(w)) = Records(w)
                      /\ response'[c][1] = "*" \o ToString(Len(command_queue[c]))
       /\ aof' # aof => \E c \in Conns : Ran(c) \/ CommitTurn(c)]_vars

\* A successful EXEC of two writes was journalled after a write of another
\* connection, with a replica attached
C6_Witness ==
    /\ aof_open["M"]
    /\ Len(aof["M"]) = 3
    /\ aof["M"][1] = Record(Cmd("SET", <<"k1", "b">>))
    /\ slaves # <<>>
    /\ response["c1"] # <<>>
    /\ response["c1"][1] = "*2"

---------------------------------------------------------------------------
(* SpecIso: a master in persistence mode snapshot; c1 runs MULTI/EXEC       *)
(* batches over two keys while c2 reads, the peer of r1 asks for a full    *)
(* sync and periodic_snapshot saves                                         *)

IsoFrames ==
    {<<"MULTI">>, <<"EXEC">>, <<"SET", "k1", "a">>, <<"SET", "k2", "a">>}

IsoOtherFrames == {<<"GET", "k2">>}

InitIso == InitWith(FALSE, FALSE)

NextIso ==
    \/ \E f \in IsoFrames : Recv("c1", f)
    \/ \E f \in IsoOtherFrames : Recv("c2", f)
    \/ \E f \in AttachFrames : Recv("r1", f)
    \/ \E c \in {"c1", "c2"} : execute_command(c)
    \/ \E c \in {"c1", "c2"} : propagate(c)
    \/ txn_lock("c1")
    \/ txn_step("c1")
    \/ txn_commit("c1")
    \/ add_slave("r1")
    \/ join("r1")
    \/ save_snapshot("M")

SpecIso == InitIso /\ [][NextIso]_vars

\* c is inside execute_transaction, between taking and releasing the lock
InBatch(c) == pc[c] \in {"txn_run", "txn_commit", "txn_propagate"}

\* d enters a critical section of the dispatcher: a single command, an EXEC
\* or the full sync of add_slave
Enters(d) ==
    \/ Ran(d)
    \/ pc[d] = "execute_transaction" /\ pc'[d] # "execute_transaction"
    \/ pc[d] = "add_slave" /\ pc'[d] # "add_slave"

\* C3: a command queued between MULTI and EXEC leaves the keyspace as it is;
\* EXEC applies the queued commands one after the other in queue order; and
\* from the first queued command to the release of the lock the batch holds
\* the lock, no other connection runs a command, starts an EXEC or takes a
\* full sync, no snapshot is saved, and the keyspace changes only by the
\* turns of the batch.
C3_BatchIsolated ==
    [][\A c \in Conns :
          LET s == ServerOf(c)
              q == command_queue[c]
              i == txn_pos[c]
          IN  /\ in_transaction[c] /\ Len(command_queue'[c]) > Len(q) =>
                    /\ data' = data
                    /\ command_queue'[c] = Append(q, command_queue'[c][Len(q) + 1])
              /\ BatchTurn(c) /\ pc'[c] = "txn_run" =>
                    /\ data'[s] = Call(data[s], upper(q[i].command), q[i].args, now).d
                    /\ txn_pos'[c] = i + 1
              /\ InBatch(c) =>
                    /\ lock[s] = c
                    /\ \A d \in Conns \ {c} : ServerOf(d) = s => ~Enters(d) /\ ~InBatch(d)
                    /\ snapshot_file' = snapshot_file
                    /\ data' # data => BatchTurn(c)]_vars

\* Half of a batch is applied while another connection's command, a full
\* sync and nothing else are waiting for the lock
C3_Witness ==
    /\ pc["c1"] = "txn_run"
    /\ txn_pos["c1"] = 2
    /\ Len(command_queue["c1"]) = 2
    /\ data["M"] # txn_base["c1"]
    /\ pc["c2"] = "execute_command"
    /\ pc["r1"] = "add_slave"

---------------------------------------------------------------------------
(* SpecRepl: a master in persistence mode aof; c1 and c2 write, c1 also in  *)
(* MULTI/EXEC batches, while the peer of r1 attaches as a replica and may   *)
(* go away                                                                  *)

ReplFrames ==
    {<<"MULTI">>, <<"EXEC">>, <<"SET", "k1", "a">>, <<"LPUSH", "k2", "b">>}

ReplOtherFrames == {<<"SET", "k1", "b">>}

InitRepl == InitWith(TRUE, FALSE)

NextRepl ==
    \/ \E f \in ReplFrames : Recv("c1", f)
    \/ \E f \in ReplOtherFrames : Recv("c2", f)
    \/ \E f \in AttachFrames : Recv("r1", f)
    \/ \E c \in {"c1", "c2"} : execute_command(c)
    \/ \E c \in {"c1", "c2"} : propagate(c)
    \/ txn_lock("c1")
    \/ txn_step("c1")
    \/ txn_commit("c1")
    \/ add_slave("r1")
    \/ join("r1")
    \/ link_close("r1")

SpecRepl == InitRepl /\ [][NextRepl]_vars

\* The writer of link R is in self.slaves and its peer has not gone away
Live(R) ==
    /\ \E i \in 1..Len(slaves) : slaves[i] = R
    /\ ~closing[R]

\* What the master has written to R after the commands of its full sync
SentAfterSync(R) == SubSeq(wire[R], mark[R].base + 1, Len(wire[R]))

\* The records of the writes the master applied after position n of its journal
AppliedAfter(n) == SubSeq(aof["M"], n + 1, Len(aof["M"]))

IsPrefix(p, q) == Len(p) <= Len(q) /\ SubSeq(q, 1, Len(p)) = p

\* C7: for a replica R that is in the live set and stays connected, what the
\* master has sent to R after the full sync is, in order and once each, the
\* writes the master journalled (applied) after R joined the live set: all
\* of them whenever no propagation is under way, and all but the one being
\* propagated otherwise.
C7_SentOnceInOrder ==
    \A R \in Links :
        Live(R) =>
            /\ IsPrefix(SentAfterSync(R), AppliedAfter(mark[R].join))
            /\ Len(AppliedAfter(mark[R].join)) <= Len(SentAfterSync(R)) + 1
            /\ lock["M"] = "free" => SentAfterSync(R) = AppliedAfter(mark[R].join)

\* Two writes of two connections were sent to a live replica after its sync
C7_Witness ==
    /\ Live("r1")
    /\ lock["M"] = "free"
    /\ Len(SentAfterSync("r1")) = 2
    /\ SentAfterSync("r1")[1] # SentAfterSync("r1")[2]

\* C8 as claimed: a replica in the live set has been sent the commands of the
\* keyspace as it was when the full sync was taken, followed by every write
\* the master applied after that instant.
C8_AsClaimed ==
    \A R \in Links :
        Live(R) /\ lock["M"] = "free" =>
            SentAfterSync(R) = AppliedAfter(mark[R].snap)

---------------------------------------------------------------------------
(* SpecSync: a master whose client c1 fills the keyspace, and the replica   *)
(* process S, whose connect_to_master task connects over r1                 *)

SyncFrames ==
    {<<"SET", "k1", "a">>, <<"SET", "k1", "b">>, <<"DELETE", "k1">>, <<"GET", "k1">>,
     <<"LPUSH", "k2", "a", "b">>, <<"LPUSH", "k2", "a">>, <<"LRANGE", "k2", "0", "-1">>}

InitSync == InitWith(FALSE, FALSE)

NextSync ==
    \/ \E f \in SyncFrames : Recv("c1", f)
    \/ execute_command("c1")
    \/ connect_to_master
    \/ \E f \in LinkFrames("r1") : Recv("r1", f)
    \/ receive("r1")

SpecSync == InitSync /\ [][NextSync]_vars

\* Same keys, kinds and payloads (lists in the same order)
SameKeyspace(d1, d2) ==
    /\ DictKeys(d1) = DictKeys(d2)
    /\ \A k \in DictKeys(d1) :
          /\ DictGet(d1, k).type = DictGet(d2, k).type
          /\ DictGet(d1, k).sval = DictGet(d2, k).sval
          /\ DictGet(d1, k).lval = DictGet(d2, k).lval
          /\ DictGet(d1, k).hval = DictGet(d2, k).hval

\* The replica has connected, the master has read its handshake and is idle,
\* and the replica has read all the master wrote to it
Settled ==
    /\ rpc = "recv"
    /\ inflight["r1"] = <<>>
    /\ lock["M"] = "free"
    /\ \A c \in Conns : ServerOf(c) = "M" => pc[c] \in {"read", "wait_closed"}
    /\ rpos = Len(wire["r1"])

\* C9 as claimed: once a replica has attached and has read what the master
\* sent it, with the master applying nothing further, the keyspace of the
\* replica equals the keyspace of the master.
C9_AsClaimed == Settled => SameKeyspace(data["S"], data["M"])

---------------------------------------------------------------------------
(* SpecRole: the clients of a server whose role is slave *)

RoleFrames ==
    {<<"SET", "k1", "a">>, <<"set", "k1", "a">>, <<"set", "k1", "b">>,
     <<"DELETE", "k1">>, <<"delete", "k1">>, <<"LPUSH", "k2", "a">>, <<"lpush", "k2", "a">>,
     <<"hset", "k1", "f", "a">>, <<"HGET", "k1", "f">>,
     <<"MULTI">>, <<"multi">>, <<"GET", "k1">>, <<"get", "k1">>}

InitRole == InitWith(FALSE, FALSE)

NextRole ==
    \/ \E f \in RoleFrames : Recv("s1", f)
    \/ execute_command("s1")

SpecRole == InitRole /\ [][NextRole]_vars

ReadOnlyReply == <<"-ERR", "READONLY You can't write against a read-only replica.">>

\* C10 as claimed: on a server whose role is replica no client command
\* changes the keyspace, and every frame whose command token folded to upper
\* case is in the write set or MULTI is answered READONLY at once.
C10_AsClaimed ==
    [][/\ data'["S"] = data["S"]
       /\ \A c \in Conns, f \in RoleFrames :
             /\ role(ServerOf(c)) = "slave"
             /\ upper(Head(f)) \in WriteSet \cup {"MULTI"}
             /\ Recv(c, f)
             => response'[c] = ReadOnlyReply /\ pc'[c] = "read"]_vars

---------------------------------------------------------------------------
(* SpecCtl: a master in persistence mode aof; c1 sends the transaction      *)
(* control commands around commands that succeed, fail or are unknown, and  *)
(* the peer of r1 opens a transaction and then asks for replication         *)

CtlFrames ==
    {<<"MULTI">>, <<"DISCARD">>, <<"EXEC">>,
     <<"SET", "k1", "a">>, <<"EXPIRE", "k1", "x">>, <<"NOPE", "k1">>}

CtlLinkFrames == {<<"MULTI">>} \cup AttachFrames

InitCtl == InitWith(TRUE, FALSE)

NextCtl ==
    \/ \E f \in CtlFrames : Recv("c1", f)
    \/ \E f \in CtlLinkFrames : Recv("r1", f)
    \/ execute_command("c1")
    \/ propagate("c1")
    \/ txn_lock("c1")
    \/ txn_step("c1")
    \/ txn_commit("c1")
    \/ add_slave("r1")
    \/ join("r1")

SpecCtl == InitCtl /\ [][NextCtl]_vars

\* The connections of a server that admits transactions
Masters == {c \in Conns : role(ServerOf(c)) = "master"}

ControlFrames == {<<"MULTI">>, <<"DISCARD">>, <<"EXEC">>}

\* handle_client of c reads frame f and f is answered at once with reply
Answered(c, reply) == pc'[c] = "read" /\ response'[c] = reply

IsError(reply) == reply # <<>> /\ reply[1] = "-ERR"

\* C11: on a master, MULTI in Idle opens Queuing with an empty buffer and is
\* answered OK; MULTI in Queuing is answered an error, state and buffer as
\* they were; DISCARD in Queuing goes to Idle with an empty buffer and is
\* answered OK; DISCARD or EXEC in Idle is answered an error and the
\* connection stays Idle.  None of these steps touches the keyspace or the
\* journal, and an Idle connection never holds a buffered command, so a
\* discarded command is never executed.
C11_ControlTransitions ==
    [][\A c \in Masters :
          /\ Recv(c, <<"MULTI">>) /\ ~in_transaction[c] =>
                /\ in_transaction'[c] /\ command_queue'[c] = <<>>
                /\ Answered(c, <<"+OK">>)
          /\ Recv(c, <<"MULTI">>) /\ in_transaction[c] =>
                /\ in_transaction'[c] /\ command_queue'[c] = command_queue[c]
                /\ pc'[c] = "read" /\ IsError(response'[c])
          /\ Recv(c, <<"DISCARD">>) /\ in_transaction[c] =>
                /\ ~in_transaction'[c] /\ command_queue'[c] = <<>>
                /\ Answered(c, <<"+OK">>)
          /\ (Recv(c, <<"DISCARD">>) \/ Recv(c, <<"EXEC">>)) /\ ~in_transaction[c] =>
                /\ ~in_transaction'[c] /\ command_queue'[c] = <<>>
                /\ pc'[c] = "read" /\ IsError(response'[c])
          /\ (\E f \in ControlFrames : Recv(c, f)) => data' = data /\ aof' = aof
          /\ ~in_transaction'[c] => command_queue'[c] = <<>>]_vars

\* A transaction was discarded with a replica attached: the connection is
\* Idle and answered OK with nothing applied or journalled
C11_Witness ==
    /\ ~in_transaction["c1"]
    /\ command_queue["c1"] = <<>>
    /\ response["c1"] = <<"+OK">>
    /\ data["M"] = <<>>
    /\ Len(aof["M"]) = 0
    /\ pc["r1"] = "wait_closed"

\* Every frame a connection of SpecCtl may send
QueueFrames == CtlFrames \cup CtlLinkFrames

\* Frame f is appended to the buffer of c and answered QUEUED, and nothing
\* else changes
Queued(c, f) ==
    /\ command_queue'[c] = Append(command_queue[c], Cmd(Head(f), Tail(f)))
    /\ Answered(c, <<"+QUEUED">>)
    /\ in_transaction'[c]
    /\ data' = data /\ aof' = aof /\ slaves' = slaves

---------------------------------------------------------------------------
(* The claims about the single commands, checked under Spec *)

\* Every key but k holds in d2 what it holds in d1
OthersUnchanged(d1, d2, k) ==
    \A k2 \in (DictKeys(d1) \cup DictKeys(d2)) \ {k} :
        /\ DictHas(d1, k2) /\ DictHas(d2, k2)
        /\ DictGet(d1, k2) = DictGet(d2, k2)

\* c runs the single command named m
Runs(c, m) == Ran(c) /\ upper(cur[c].command) = m

\* C13: whatever k held before (nothing, an expired entry, a string, a list
\* or a hash, with or without expiry), SET k v is answered OK and leaves k
\* holding the string v with no expiry, every other key as it was, and a GET
\* k run on the keyspace it leaves returns v.
C13_SetReplaces ==
    [][\A c \in Conns :
          Runs(c, "SET") /\ Len(cur[c].args) = 2 =>
             LET k == cur[c].args[1]
                 v == cur[c].args[2]
                 d2 == data'[ServerOf(c)]
             IN  /\ response'[c] = <<"+OK">>
                 /\ DictHas(d2, k)
                 /\ DictGet(d2, k).type = "string" /\ DictGet(d2, k).sval = v
                 /\ DictGet(d2, k).exp = None
                 /\ OthersUnchanged(data[ServerOf(c)], d2, k)
                 /\ exec_GET(d2, <<k>>, now).r = RStr(v)]_vars

\* SET is about to replace a list whose expiry has passed, another key present
C13_Witness ==
    /\ pc["c1"] = "execute_command"
    /\ cur["c1"] = Cmd("SET", <<"k1", "b">>)
    /\ DictHas(data["M"], "k1") /\ DictHas(data["M"], "k2")
    /\ DictGet(data["M"], "k1").type = "list"
    /\ IsExpired(DictGet(data["M"], "k1"), now)


\* k has an entry in d whose expiry, if any, has not passed at t
LiveKey(d, k, t) == DictHas(d, k) /\ ~IsExpired(DictGet(d, k), t)

\* C14: EXPIRE k n with an integer n on a live key of any kind is answered 1
\* and changes only the expiry of k (kind, payload and every other entry as
\* they were); on a key that is missing or already expired it is answered 0
\* and k has no entry afterwards.
C14_ExpireOnlyExpiry ==
    [][\A c \in Conns :
          Runs(c, "EXPIRE") /\ Len(cur[c].args) = 2 /\ IsIntTok(cur[c].args[2]) =>
             LET k == cur[c].args[1]
                 d == data[ServerOf(c)]
                 d2 == data'[ServerOf(c)]
             IN  /\ OthersUnchanged(d, d2, k)
                 /\ IF LiveKey(d, k, now)
                    THEN /\ response'[c] = <<":1">>
                         /\ DictHas(d2, k)
                         /\ DictGet(d2, k) = [DictGet(d, k) EXCEPT !.exp = DictGet(d2, k).exp]
                         /\ DictGet(d2, k).exp = <<now + Ticks(int(cur[c].args[2]))>>
                    ELSE /\ response'[c] = <<":0">>
                         /\ ~DictHas(d2, k)]_vars

\* EXPIRE is about to run on a live list that already has an expiry
C14_Witness ==
    /\ pc["c1"] = "execute_command"
    /\ cur["c1"] = Cmd("EXPIRE", <<"k1", "1">>)
    /\ LiveKey(data["M"], "k1", now)
    /\ DictGet(data["M"], "k1").type = "list"
    /\ DictGet(data["M"], "k1").exp # None
    /\ DictHas(data["M"], "k2")


\* The list a command finds under k: L for a live list, empty for no entry
\* (or an expired one, which is purged first)
ListAt(d, k, t) == IF LiveKey(d, k, t) THEN DictGet(d, k).lval ELSE <<>>

\* k is absent (or expired) or holds a list
AbsentOrKind(d, k, t, kind) == ~LiveKey(d, k, t) \/ DictGet(d, k).type = kind

\* C15: LPUSH k v1 .. vn (n >= 1) on a key that is absent or holds list L is
\* answered len(L)+n and leaves k holding vn, .., v1 followed by L; LRANGE k
\* 0 -1 on the keyspace it leaves returns that whole list head first; and
\* LRANGE k 0 -1 run by a client returns the whole stored list and changes
\* nothing.
C15_PushThenRange ==
    [][\A c \in Conns :
          LET k == cur[c].args[1]
              d == data[ServerOf(c)]
              d2 == data'[ServerOf(c)]
          IN  /\ Runs(c, "LPUSH") /\ Len(cur[c].args) >= 2
                 /\ AbsentOrKind(d, k, now, "list") =>
                    LET L == ListAt(d, k, now)
                        pushed == reversed(Tail(cur[c].args)) \o L
                        range == exec_LRANGE(d2, <<k, "0", "-1">>, now)
                    IN  /\ response'[c] = <<":" \o str(Len(L) + Len(cur[c].args) - 1)>>
                        /\ DictHas(d2, k)
                        /\ DictGet(d2, k).type = "list" /\ DictGet(d2, k).lval = pushed
                        /\ OthersUnchanged(d, d2, k)
                        /\ range.r = RList(StrList(pushed))
                        /\ range.d = d2
              /\ Runs(c, "LRANGE") /\ cur[c].args = <<k, "0", "-1">>
                 /\ LiveKey(d, k, now) /\ DictGet(d, k).type = "list" =>
                    /\ response'[c] = format_response(RList(StrList(DictGet(d, k).lval)))
                    /\ d2 = d]_vars

\* LPUSH of one value is about to run on a live list of one element
C15_Witness ==
    /\ pc["c1"] = "execute_command"
    /\ cur["c1"] = Cmd("LPUSH", <<"k1", "b">>)
    /\ LiveKey(data["M"], "k1", now)
    /\ DictGet(data["M"], "k1").type = "list"
    /\ Len(DictGet(data["M"], "k1").lval) = 1


\* The hash a command finds under k, empty for no entry or an expired one
HashAt(d, k, t) == IF LiveKey(d, k, t) THEN DictGet(d, k).hval ELSE <<>>

\* The values a client may give a field
FieldValues == {"a", "b"}

\* C16: HSET k f v on a key that is absent or holds a hash is answered 1 when
\* f was not a field of k and 0 when it was; on the keyspace it leaves HGET k
\* f returns v, every other field of k has the value it had, and a second
\* HSET of f is answered 0 and overwrites the value. HGET of a field that
\* was never set is answered nil.
C16_HashFields ==
    [][\A c \in Conns :
          LET k == cur[c].args[1]
              f == cur[c].args[2]
              d == data[ServerOf(c)]
              d2 == data'[ServerOf(c)]
              H == HashAt(d, k, now)
          IN  /\ Runs(c, "HSET") /\ Len(cur[c].args) = 3
                 /\ AbsentOrKind(d, k, now, "hash") =>
                    /\ response'[c] = IF DictHas(H, f) THEN <<":0">> ELSE <<":1">>
                    /\ DictHas(d2, k) /\ DictGet(d2, k).type = "hash"
                    /\ exec_HGET(d2, <<k, f>>, now).r = RStr(cur[c].args[3])
                    /\ DictKeys(DictGet(d2, k).hval) = DictKeys(H) \cup {f}
                    /\ \A g \in DictKeys(H) \ {f} :
                          DictGet(DictGet(d2, k).hval, g) = DictGet(H, g)
                    /\ OthersUnchanged(d, d2, k)
                    /\ \A w \in FieldValues :
                          LET again == exec_HSET(d2, <<k, f, w>>, now)
                          IN  /\ again.r = RInt(0)
                              /\ exec_HGET(again.d, <<k, f>>, now).r = RStr(w)
              /\ Runs(c, "HGET") /\ Len(cur[c].args) = 2
                 /\ AbsentOrKind(d, k, now, "hash") /\ ~DictHas(H, f) =>
                    response'[c] = <<"_(nil)">>]_vars

\* HSET of a second field is about to run on a live hash holding another one
C16_Witness ==
    /\ pc["c1"] = "execute_command"
    /\ cur["c1"] = Cmd("HSET", <<"k1", "g", "a">>)
    /\ LiveKey(data["M"], "k1", now)
    /\ DictGet(data["M"], "k1").type = "hash"
    /\ DictHas(DictGet(data["M"], "k1").hval, "f")
    /\ ~DictHas(DictGet(data["M"], "k1").hval, "g")


\* C17: DELETE k is answered 1 and removes the entry when k has one, also
\* when the entry's expiry has passed and it is not yet purged; it is
\* answered 0 when k has no entry; afterwards GET k returns nil and every
\* other key is as it was.
C17_DeleteRemoves ==
    [][\A c \in Conns :
          Runs(c, "DELETE") /\ Len(cur[c].args) = 1 =>
             LET k == cur[c].args[1]
                 d == data[ServerOf(c)]
                 d2 == data'[ServerOf(c)]
             IN  /\ response'[c] = IF DictHas(d, k) THEN <<":1">> ELSE <<":0">>
                 /\ ~DictHas(d2, k)
                 /\ exec_GET(d2, <<k>>, now).r = RNil
                 /\ OthersUnchanged(d, d2, k)]_vars

\* DELETE is about to run on an entry that is expired and not yet purged
C17_Witness ==
    /\ pc["c1"] = "execute_command"
    /\ cur["c1"] = Cmd("DELETE", <<"k1">>)
    /\ DictHas(data["M"], "k1") /\ DictHas(data["M"], "k2")
    /\ IsExpired(DictGet(data["M"], "k1"), now)


\* C18 as claimed: SET k v EX n with a non-negative integer n is answered OK
\* and stores the string v under k with expiry now + n seconds.
C18_AsClaimed ==
    [][\A c \in Conns :
          Runs(c, "SET") /\ Len(cur[c].args) = 4 /\ upper(cur[c].args[3]) = "EX"
             /\ IsIntTok(cur[c].args[4]) /\ int(cur[c].args[4]) >= 0 =>
             LET k == cur[c].args[1]
                 d2 == data'[ServerOf(c)]
             IN  /\ response'[c] = <<"+OK">>
                 /\ DictHas(d2, k)
                 /\ DictGet(d2, k) = StringItem(k, cur[c].args[2],
                                                <<now + Ticks(int(cur[c].args[4]))>>)]_vars

---------------------------------------------------------------------------
(* SpecSnap: a master in persistence mode snapshot; c1 writes keys of every *)
(* kind with and without expiry, time passes, periodic_snapshot saves and  *)
(* the process is restarted from the file                                   *)

SnapFrames ==
    {<<"SET", "k2", "b", "1">>, <<"LPUSH", "k1", "a", "b">>, <<"HSET", "k1", "f", "a">>,
     <<"EXPIRE", "k1", "1">>, <<"GET", "k2">>}

InitSnap == InitWith(FALSE, FALSE)

NextSnap ==
    \/ \E f \in SnapFrames : Recv("c1", f)
    \/ execute_command("c1")
    \/ Tick
    \/ save_snapshot("M")
    \/ load_from_snapshot("M")

SpecSnap == InitSnap /\ [][NextSnap]_vars

\* The entries of d whose expiry has not passed at t, in dict order
Unexpired(d, t) == SelectSeq(d, LAMBDA item : ~IsExpired(item, t))

\* The members of a snapshot document whose expiry has passed at t
ExpiredMembers(doc, t) ==
    {i \in 1..Len(doc.o) : doc.o[i].val.a[3].j = "num" /\ t > doc.o[i].val.a[3].n}

\* C19: save_snapshot, under the dispatcher lock, removes every expired entry
\* and then serializes, so the document holds no expired entry and decodes
\* to the keyspace before the save minus the entries expired at the sweep
\* (keys, kinds, payloads, list order, expiries), on which every command
\* gives the result and the keyspace it gives on the original; and a restart
\* leaves the server with the keyspace the document decodes to.
C19_SnapshotRoundTrip ==
    [][/\ save_snapshot("M") =>
             LET kept == Unexpired(data["M"], now)
                 doc == snapshot_file'["M"][1]
             IN  /\ lock["M"] = "free"
                 /\ data'["M"] = kept
                 /\ ExpiredMembers(doc, now) = {}
                 /\ json_load(doc) = kept
                 /\ \A f \in SnapFrames :
                       Call(json_load(doc), Head(f), Tail(f), now)
                          = Call(kept, Head(f), Tail(f), now)
       /\ load_from_snapshot("M") /\ snapshot_file["M"] # <<>> =>
             data'["M"] = json_load(snapshot_file["M"][1])]_vars

\* A file was saved and the server holds what it decodes to: a list of two
\* elements with an expiry and a second key, some time after the start
C19_Witness ==
    /\ snapshot_file["M"] # <<>>
    /\ data["M"] = json_load(snapshot_file["M"][1])
    /\ pc["c1"] = "read" /\ response["c1"] = <<>>
    /\ DictHas(data["M"], "k1") /\ DictHas(data["M"], "k2")
    /\ DictGet(data["M"], "k1").type = "list"
    /\ DictGet(data["M"], "k1").lval = <<"b", "a">>
    /\ DictGet(data["M"], "k1").exp # None
    /\ now > 0


\* cmd is a command that takes an integer and is given a token that is none:
\* EXPIRE k n, LRANGE k start stop, SET k v n
NonInteger(cmd) ==
    CASE upper(cmd.command) = "EXPIRE" -> Len(cmd.args) = 2 /\ ~IsIntTok(cmd.args[2])
      [] upper(cmd.command) = "LRANGE" ->
            Len(cmd.args) = 3 /\ (~IsIntTok(cmd.args[2]) \/ ~IsIntTok(cmd.args[3]))
      [] upper(cmd.command) = "SET" -> Len(cmd.args) = 3 /\ ~IsIntTok(cmd.args[3])
      [] OTHER -> FALSE

\* C20 as claimed: a command that takes an integer and is given a non-integer
\* is answered ERR whether or not its key exists, and leaves the keyspace and
\* the AOF as they were and sends nothing to a replica.
C20_AsClaimed ==
    [][\A c \in Conns :
          Ran(c) /\ NonInteger(cur[c]) =>
             /\ data' = data
             /\ aof' = aof
             /\ wire' = wire
             /\ pc'[c] = "read" /\ IsError(response'[c])]_vars

---------------------------------------------------------------------------
(* The claims about the replica link *)

\* C21 as claimed: when the master reads the handshake in the form
\* connect_to_master writes it, it recognises REPLICAOF: it hands the
\* connection to add_slave, writes no reply through the client path and
\* reads no further client command from it.
C21_AsClaimed ==
    [][Recv("r1", Handshake) =>
          /\ pc'["r1"] = "add_slave"
          /\ response'["r1"] = <<>>
          /\ wire'["r1"] = wire["r1"]]_vars


---------------------------------------------------------------------------
(* SpecLink: the replica's connect_to_master task against a master that is *)
(* at times unreachable and at times drops the connection                  *)

LinkClientFrames == {<<"SET", "k1", "a">>, <<"LPUSH", "k2", "a", "b">>, <<"DELETE", "k1">>}

InitLink == InitWith(FALSE, FALSE)

NextLink ==
    \/ \E f \in LinkClientFrames : Recv("c1", f)
    \/ execute_command("c1")
    \/ Tick
    \/ connect_to_master
    \/ connect_refused
    \/ \E f \in LinkFrames("r1") : Recv("r1", f)
    \/ receive("r1")
    \/ master_lost("r1")
    \/ backoff

SpecLink == InitLink /\ [][NextLink]_vars

\* C22 as claimed: the reconnect loop never stops: after every failed
\* connection attempt, the first one included, and after every loss of the
\* master connection the task is in its backoff sleep, from which it makes
\* another attempt.
C22_AsClaimed ==
    [][/\ connect_refused \/ master_lost("r1") => rpc' = "sleep"
       /\ rpc' # "dead"]_vars


---------------------------------------------------------------------------
(* SpecWrite: a master in persistence mode aof whose client c1 sends        *)
(* standalone reads and writes, some failing, on a key that expires, while *)
(* the peer of r1 attaches as a replica                                     *)

WriteFrames ==
    {<<"SET", "k1", "a", "0">>, <<"GET", "k1">>, <<"LPUSH", "k1", "a">>, <<"DELETE", "k1">>,
     <<"EXPIRE", "k1", "x">>, <<"HSET", "k1", "f", "a">>, <<"HGET", "k1", "f">>,
     <<"LRANGE", "k1", "0", "-1">>, <<"NOPE", "k1">>}

InitWrite == InitWith(TRUE, FALSE)

NextWrite ==
    \/ \E f \in WriteFrames : Recv("c1", f)
    \/ \E f \in AttachFrames : Recv("r1", f)
    \/ execute_command("c1")
    \/ propagate("c1")
    \/ add_slave("r1")
    \/ join("r1")
    \/ Tick

SpecWrite == InitWrite /\ [][NextWrite]_vars

\* The writers of self.slaves, as a set
SlaveSet == {slaves[i] : i \in 1..Len(slaves)}

\* C23: a standalone command produces an AOF record and a replication
\* message exactly when it is of the write set and completes without error:
\* then one record carrying the command and its arguments as issued is
\* appended and the same record is written once to each live replica; GET,
\* LRANGE, HGET, unknown commands and commands that raise append nothing and
\* send nothing, also when they purge an expired key.
C23_WritesOnly ==
    [][\A c \in Masters :
          /\ Ran(c) =>
                IF SucceedsWrite(c)
                THEN /\ aof'["M"] = Append(aof["M"], Record(cur[c]))
                     /\ slaves # <<>> => pc'[c] = "propagate" /\ cur'[c] = cur[c]
                     /\ slaves = <<>> => pc'[c] = "read"
                     /\ \A l \in SlaveSet : wire'[l] = wire[l]
                ELSE /\ aof' = aof
                     /\ pc'[c] = "read"
                     /\ \A l \in SlaveSet : wire'[l] = wire[l]
          /\ propagate(c) /\ prop_pos[c] <= Len(slaves) =>
                LET w == slaves[prop_pos[c]]
                IN  /\ prop_pos'[c] = prop_pos[c] + 1
                    /\ aof' = aof
                    /\ wire'[w] = IF closing[w] THEN wire[w]
                                  ELSE Append(wire[w], Record(cur[c]))
                    /\ \A l \in SlaveSet \ {w} : wire'[l] = wire[l]
          /\ \A f \in WriteFrames :
                Recv(c, f) => aof' = aof /\ \A l \in SlaveSet : wire'[l] = wire[l]]_vars

\* GET is about to purge an expired key while a replica is in the live set
C23_Witness ==
    /\ pc["c1"] = "execute_command"
    /\ cur["c1"] = Cmd("GET", <<"k1">>)
    /\ DictHas(data["M"], "k1") /\ IsExpired(DictGet(data["M"], "k1"), now)
    /\ Live("r1")
    /\ aof["M"] # <<>>


---------------------------------------------------------------------------
(* SpecFan: a master in persistence mode aof with two replica links that    *)
(* attach and may go away while c1 writes                                   *)

FanFrames == {<<"SET", "k1", "a">>, <<"DELETE", "k1">>}

InitFan == InitWith(TRUE, FALSE)

NextFan ==
    \/ \E f \in FanFrames : Recv("c1", f)
    \/ \E l \in Links, f \in AttachFrames : Recv(l, f)
    \/ execute_command("c1")
    \/ propagate("c1")
    \/ \E l \in Links : add_slave(l)
    \/ \E l \in Links : join(l)
    \/ \E l \in Links : link_close(l)

SpecFan == InitFan /\ [][NextFan]_vars

\* propagate of c visits the writer at its position in self.slaves
Visits(c, w) ==
    /\ propagate(c)
    /\ prop_pos[c] <= Len(slaves)
    /\ slaves[prop_pos[c]] = w

\* propagate of c, past the end of self.slaves, returns
Returns(c) == propagate(c) /\ prop_pos[c] > Len(slaves)

\* The writers propagate of c has found disconnected
Dropped(c) == {disconnected_slaves[c][j] : j \in 1..Len(disconnected_slaves[c])}

---------------------------------------------------------------------------
(* SpecApply: a replica started with --persistence-mode aof, connected to  *)
(* a peer that sends it commands as lines                                   *)

ApplyFrames ==
    {<<"SET", "k1", "a">>, <<"SET", "k1", "b">>, <<"DELETE", "k1">>, <<"GET", "k1">>,
     <<"LPUSH", "k2", "a">>, <<"HSET", "k2", "f", "a">>, <<"NOPE", "k1">>}

InitApply == InitWith(FALSE, TRUE)

NextApply ==
    \/ connect_to_master
    \/ \E f \in ApplyFrames : master_writes("r1", f)
    \/ receive("r1")
    \/ Tick

SpecApply == InitApply /\ [][NextApply]_vars

\* C25 as claimed: on a replica, in whatever persistence mode, applying a
\* command received from the master writes no AOF record and sends nothing
\* further; only the keyspace of the replica changes.
C25_AsClaimed ==
    [][receive("r1") =>
          /\ aof' = aof
          /\ wire' = wire /\ inflight' = inflight
          /\ data'["M"] = data["M"]]_vars


\* C26 as claimed: self.slaves of the master changes only in a step of the
\* task that holds the dispatcher lock, so never while another task is
\* fanning a command out, and the AOF of the master grows only in a step of
\* a task that holds the lock or takes it in that step.
C26_AsClaimed ==
    [][/\ slaves' # slaves => \E c \in Masters : lock["M"] = c /\ propagate(c)
       /\ aof'["M"] # aof["M"] =>
             \E c \in Masters :
                /\ lock["M"] \in {"free", c}
                /\ execute_command(c) \/ txn_commit(c)]_vars


---------------------------------------------------------------------------
(* The claims about the full sync *)

\* Executing a command list, in order, on keyspace d at time t
RECURSIVE Replay(_, _, _)
Replay(cmds, d, t) ==
    IF cmds = <<>> THEN d
    ELSE Replay(Tail(cmds),
                Call(d, upper(Head(cmds).command), Head(cmds).args, t).d, t)

\* The live entries of d at time t
LiveKeys(d, t) == {k \in DictKeys(d) : LiveKey(d, k, t)}

\* The keys of d whose expiry lies in the future at time t
FutureExpiry(d, t) == {k \in DictKeys(d) : DictGet(d, k).exp # None /\ DictGet(d, k).exp[1] > t}

\* C27 as claimed: for every keyspace the master reaches,
\* get_all_data_as_commands produces a command list, and executing it on an
\* empty keyspace gives exactly the live keys of the master, each with its
\* kind and payload, and an expiry on exactly the keys whose expiry on the
\* master is in the future.
C27_AsClaimed ==
    LET sync == get_all_data_as_commands(data["M"], now)
        copy == Replay(sync.cmds, <<>>, now)
    IN  /\ ~IsExc(sync.r)
        /\ DictKeys(copy) = LiveKeys(data["M"], now)
        /\ \A k \in DictKeys(copy) :
              /\ DictGet(copy, k).type = DictGet(data["M"], k).type
              /\ DictGet(copy, k).sval = DictGet(data["M"], k).sval
              /\ DictGet(copy, k).lval = DictGet(data["M"], k).lval
              /\ DictGet(copy, k).hval = DictGet(data["M"], k).hval
        /\ {k \in DictKeys(copy) : DictGet(copy, k).exp # None}
              = FutureExpiry(data["M"], now)


---------------------------------------------------------------------------
(* The claims about the end of a transaction and the journal as a whole *)

\* EXEC of c returns to handle_client, with its results or with an abort
ExecReturns(c) == pc[c] \in {"txn_run", "txn_commit"} /\ pc'[c] = "read"

\* C28 as claimed: every EXEC issued in Queuing ends the transaction: when
\* it returns, with a result array or with an abort error, the connection
\* is Idle with an empty buffer.
C28_AsClaimed ==
    [][\A c \in Conns :
          ExecReturns(c) => ~in_transaction'[c] /\ command_queue'[c] = <<>>]_vars


\* The command of a RESP array record: "*n", then "$len" and a token for the
\* command and for each argument
Decoded(rec) ==
    Cmd(rec[3], [i \in 1..((Len(rec) - 3) \div 2) |-> rec[2 * i + 3]])

DecodedAll(recs) == [i \in 1..Len(recs) |-> Decoded(recs[i])]

\* C29 as claimed: on a master started empty with the AOF configured and no
\* expiry ever set, whenever no command is under way, replaying the AOF
\* records in order on an empty keyspace gives the keyspace of the master,
\* and so does replaying what was sent to a live replica that attached and
\* joined the live set before the first write.
C29_AsClaimed ==
    lock["M"] = "free" =>
       /\ SameKeyspace(Replay(DecodedAll(aof["M"]), <<>>, now), data["M"])
       /\ \A R \in Links :
             Live(R) /\ mark[R].base = 0 /\ mark[R].snap = 0 /\ mark[R].join = 0 =>
                SameKeyspace(Replay(DecodedAll(wire[R]), <<>>, now), data["M"])


\* C30 as claimed: a full sync taken while the keyspace of the master holds
\* an entry whose expiry has passed still completes: add_slave raises
\* nothing, the expired entries are purged, the commands of every live entry
\* are written to the replica, and the connection goes on to join the live
\* set.
C30_AsClaimed ==
    [][\A l \in Links :
          add_slave(l) =>
             LET live == Unexpired(data["M"], now)
             IN  /\ pc'[l] = "drain"
                 /\ data'["M"] = live
                 /\ Len(wire'[l]) = Len(wire[l]) + Len(get_all_data_as_commands(live, now).cmds)
                 /\ response'[l] = response[l]]_vars

====
